---- MODULE Spec2Model ----
(***************************************************************************)
(* A model of the hierarchy-inference code of mindmapper.                  *)
(*                                                                         *)
(*   Spec            RoadmapParser.extract_topics (src/json_parser.py):    *)
(*                   the node loop of _extract_all_nodes, the edge loop of *)
(*                   _build_parent_graph, and the resolution of every      *)
(*                   topic node by _detect_hierarchy.                      *)
(*   SpecEdges       extract_topics on a few node lists, with the list of  *)
(*                   the edges read kept beside the lookup built from it.  *)
(*   SpecBox         BoundingBox.contains (src/browser_legacy/nodes.py).   *)
(*   SpecHierarchy   NodeExtractor.infer_hierarchy on the sorted list of   *)
(*                   nodes that extract_all_nodes returns.                 *)
(*   SpecSweep       NodeExtractor.extract_all_nodes, the scroll sweep.    *)
(*   SpecContent     RoadmapParser.parse_content (src/json_parser.py).     *)
(*   SpecRows        JSONRoadmapScraper._process_topics_with_cache         *)
(*                   (src/json_scraper.py): one row for every topic.       *)
(*   SpecEnrich      JSONRoadmapScraper._enrich_data with EnrichmentCache  *)
(*                   and GeminiEnricher.enrich_batch / enrich_row, then    *)
(*                   CSVExporter.export; the cache outlives a run.         *)
(*   SpecRetry       GeminiEnricher._generate_with_retry on every course   *)
(*                   of outcomes of _generate_enrichment.                  *)
(*   SpecFetch       the three bulk-fetch strategies of                    *)
(*                   GitHubFetcher.fetch_all_content_files, side by side   *)
(*                   on one listing and one outcome for each download.     *)
(*                                                                         *)
(* Strings the code computes with (labels, the roadmap name, categories)   *)
(* are sequences of one-character strings, so that formatting is computed  *)
(* and not assumed.  Ids and kinds are only compared, and are strings.     *)
(***************************************************************************)
EXTENDS Integers, Sequences, FiniteSets, TLC

VARIABLES
    pc,            \* position in extract_topics: "nodes", "edges", "done", "raised"
    roadmap_name,  \* RoadmapParser.roadmap_name
    category,      \* RoadmapParser.category, the default category
    nodes,         \* roadmap_data['nodes'], as far as the node loop has read it
    all_nodes,     \* the list _extract_all_nodes builds
    parent_of,     \* the dict _build_parent_graph builds
    topics,        \* the list extract_topics returns
    edges,         \* SpecEdges: roadmap_data['edges'], as far as the edge loop has read it
    box_self,      \* SpecBox: the box contains() is called on
    box_other,     \* SpecBox: the box passed to contains()
    box_result,    \* SpecBox: <<>>, or <<v>> once contains() has returned v
    hpc,           \* SpecHierarchy: "extracted", then "inferred"
    nodes_list,    \* the list extract_all_nodes returns and infer_hierarchy fills in
    spc,           \* SpecSweep: "start", "sweep", "returned"
    page_height,   \* extract_all_nodes: document.documentElement.scrollHeight
    viewport_height,    \* extract_all_nodes: page.viewport_size['height']
    scroll_positions,   \* extract_all_nodes: the offsets to visit
    visited,            \* the offsets window.scrollTo has been called with, in order
    nodes_at_position,  \* what _extract_visible_nodes returned at the last offset
    nodes_set,          \* extract_all_nodes: the set that accumulates the nodes
    content,       \* SpecContent: the document given to parse_content
    parsed,        \* SpecContent: the results of the calls of parse_content so far
    rpc,           \* SpecRows: "process", then "returned"
    topic_i,       \* _process_topics_with_cache: the topics the loop has been through
    content_cache, \* _process_topics_with_cache: the fetched documents by filename key
    data_rows,     \* _process_topics_with_cache: the rows built so far
    epc,           \* SpecEnrich: "check", "batch", "fallback", "returned", "exported"
    cache,         \* EnrichmentCache: the table, row_hash -> <<tldr, challenge>>
    uncached_rows, \* _enrich_data: the places in data_rows of the rows not cached
    batch_num,     \* _enrich_data: the batches done
    fallback_at,   \* _enrich_data: the place in the batch of the fallback loop
    csv_rows,      \* CSVExporter.export: the rows written to the file
    runs,          \* the runs of scrape with enrichment started so far
    gpc,           \* SpecRetry: "attempt", "returned", "raised"
    max_retries,   \* _generate_with_retry: the argument
    attempt,       \* _generate_with_retry: the loop variable
    outcomes,      \* the outcomes of the calls of _generate_enrichment so far
    retry_out,     \* _generate_with_retry: what it returned or raised
    fpc,           \* SpecFetch: "fetch", "done"
    files_list,    \* fetch_all_content_files: the directory listing
    downloads,     \* the outcome of the download of each file of the listing
    seq_at,        \* _fetch_all_sequential: the files of the listing done
    seq_cache,     \* _fetch_all_sequential: content_cache
    async_done,    \* fetch_all_async: gather has returned and is processed
    async_cache,   \* fetch_all_async: content_cache
    pool_pending,  \* fetch_all_parallel: the futures not yet collected
    pool_cache     \* fetch_all_parallel: content_cache

gvars == <<pc, roadmap_name, category, nodes, all_nodes, parent_of, topics>>
bvars == <<box_self, box_other, box_result>>
hvars == <<hpc, nodes_list>>
svars == <<spc, page_height, viewport_height, scroll_positions, visited,
           nodes_at_position, nodes_set>>
cvars == <<content, parsed>>
rvars == <<rpc, topic_i, content_cache, data_rows>>
evars == <<epc, cache, uncached_rows, batch_num, fallback_at, csv_rows, runs>>
tvars == <<gpc, max_retries, attempt, outcomes, retry_out>>
fvars == <<fpc, files_list, downloads, seq_at, seq_cache, async_done, async_cache,
           pool_pending, pool_cache>>
xvars == <<rvars, evars, tvars, fvars>>
vars == <<pc, roadmap_name, category, nodes, all_nodes, parent_of, topics,
          edges, box_self, box_other, box_result, hpc, nodes_list,
          spc, page_height, viewport_height, scroll_positions, visited,
          nodes_at_position, nodes_set, content, parsed,
          rpc, topic_i, content_cache, data_rows,
          epc, cache, uncached_rows, batch_num, fallback_at, csv_rows, runs,
          gpc, max_retries, attempt, outcomes, retry_out,
          fpc, files_list, downloads, seq_at, seq_cache, async_done, async_cache,
          pool_pending, pool_cache>>

----------------------------------------------------------------------------
(* Bounds of the model *)

\* The node loop reads at most MaxNodes raw nodes.
MaxNodes == 3
\* SpecEdges reads at most MaxEdges raw edges.
MaxEdges == 3
\* SpecBox: a box starts at 0..MaxCoord, and an edge of the other box lies up
\* to MaxCoord inside and up to MaxCoord beyond the tolerance outside.
MaxCoord == 1
\* SpecHierarchy: the list given to infer_hierarchy holds at most MaxVisual nodes.
MaxVisual == 4
\* SpecSweep: the page is at most MaxPage high, the viewport at most
\* MaxViewport, and one extraction finds at most MaxFound nodes.
MaxPage == 3
MaxViewport == 2
MaxFound == 2
\* SpecContent: a document is made of at most MaxPieces pieces, and is parsed
\* at most MaxCalls times.
MaxPieces == 4
MaxCalls == 2
\* SpecRows: extract_topics has returned at most MaxTopics topics.
MaxTopics == 2
\* SpecEnrich: scrape is run with enrichment at most MaxRuns times.
MaxRuns == 2
\* SpecRetry: max_retries is at most MaxRetries; 3 is the default.
MaxRetries == 3
\* SpecFetch: the directory listing has at most MaxFiles files.
MaxFiles == 2

----------------------------------------------------------------------------
(* Values *)

\* The node ids of the inputs.
Ids == {"a", "b", "c"}
\* A missing (None) or empty id: both are false in a Python condition.
NoId == ""
\* A key that a JSON object does not have.
Absent == "<absent>"
\* The empty string.
Empty == <<>>

\* The kinds extract_topics resolves.
TopicTypes == {"topic", "subtopic"}
\* The kinds _detect_hierarchy keeps as meaningful ancestors.
MeaningfulTypes == {"label", "topic", "paragraph"}

\* float(): the JSON scalars it converts; any other scalar makes it raise.
FloatOf == ("0" :> 0) @@ ("10" :> 10) @@ ("50" :> 50)
IsNumeric(v) == v \in DOMAIN FloatOf

\* The letters str.title() knows in this model, lower and upper case.
Lowers == <<"a", "b", "c", "d", "e", "f", "g", "h", "i", "j", "k", "l", "m",
           "n", "o", "p", "q", "r", "s", "t", "u", "v", "w", "x", "y", "z">>
Uppers == <<"A", "B", "C", "D", "E", "F", "G", "H", "I", "J", "K", "L", "M",
           "N", "O", "P", "Q", "R", "S", "T", "U", "V", "W", "X", "Y", "Z">>
IsLower(c) == \E i \in 1..Len(Lowers) : Lowers[i] = c
IsUpper(c) == \E i \in 1..Len(Uppers) : Uppers[i] = c
IsCased(c) == IsLower(c) \/ IsUpper(c)
ToUpper(c) == IF IsLower(c) THEN Uppers[CHOOSE i \in 1..Len(Lowers) : Lowers[i] = c] ELSE c
ToLower(c) == IF IsUpper(c) THEN Lowers[CHOOSE i \in 1..Len(Uppers) : Uppers[i] = c] ELSE c

\* name.replace('-', ' ')
ReplaceHyphens(name) == [i \in 1..Len(name) |-> IF name[i] = "-" THEN " " ELSE name[i]]

\* str.title(): a cased character is upper case when the character before it is
\* not cased (or there is none), lower case otherwise; the rest is unchanged.
Title(s) ==
    [i \in 1..Len(s) |->
        IF ~IsCased(s[i]) THEN s[i]
        ELSE IF i > 1 /\ IsCased(s[i - 1]) THEN ToLower(s[i])
        ELSE ToUpper(s[i])]

\* RoadmapParser._format_category_name
FormatCategoryName(name) == Title(ReplaceHyphens(name))

----------------------------------------------------------------------------
(* dict.get *)

\* parent_map.get(id): the parent id, or None
GetParent(parent_map, id) ==
    IF id \in DOMAIN parent_map THEN parent_map[id] ELSE NoId

\* nodes_by_id = {n.id: n for n in all_nodes}: the last node of an id wins.
\* The dict is the function from the ids present to that node.
NodesById(node_list) ==
    LET present == {node_list[i].id : i \in 1..Len(node_list)}
        last(id) == CHOOSE i \in 1..Len(node_list) :
                        /\ node_list[i].id = id
                        /\ \A j \in 1..Len(node_list) : node_list[j].id = id => j <= i
    IN  [id \in present |-> node_list[last(id)]]

----------------------------------------------------------------------------
(* RoadmapParser._extract_all_nodes *)

\* A raw node of the JSON: the keys the node loop reads.  position is the
\* object {x, y}; a missing or empty position has both keys Absent.  width and
\* height are Absent when the node has none.  label is node['data']['label'],
\* Empty when data or label is missing.
RawNode(id, type, x, y, width, height, label) ==
    [id |-> id, type |-> type, position |-> [x |-> x, y |-> y],
     width |-> width, height |-> height, label |-> label]

\* node.get('width', 0), node.get('height', 0)
GetSize(v) == IF v = Absent THEN "0" ELSE v

\* "not position or 'x' not in position or 'y' not in position"
LacksPosition(node) == node.position.x = Absent \/ node.position.y = Absent

\* The node loop skips the raw node (continue), before it converts anything.
Skipped(node) == LacksPosition(node) \/ node.label = Empty

\* float(position['x']), float(position['y']), float(width), float(height):
\* each raises on a non-numeric scalar.
FloatRaises(node) ==
    \/ ~IsNumeric(node.position.x)
    \/ ~IsNumeric(node.position.y)
    \/ ~IsNumeric(GetSize(node.width))
    \/ ~IsNumeric(GetSize(node.height))

\* Node(id=..., label=..., type=..., x=float(...), y=float(...), ...)
NodeObj(node) ==
    [id |-> node.id, label |-> node.label, type |-> node.type,
     x |-> FloatOf[node.position.x], y |-> FloatOf[node.position.y],
     width |-> FloatOf[GetSize(node.width)], height |-> FloatOf[GetSize(node.height)]]

\* _extract_all_nodes on a whole list: the list it returns, or that it raised.
RECURSIVE ExtractLoop(_, _, _)
ExtractLoop(raw_nodes, i, result) ==
    IF i > Len(raw_nodes) THEN [raised |-> FALSE, result |-> result]
    ELSE IF Skipped(raw_nodes[i]) THEN ExtractLoop(raw_nodes, i + 1, result)
    ELSE IF FloatRaises(raw_nodes[i]) THEN [raised |-> TRUE, result |-> <<>>]
    ELSE ExtractLoop(raw_nodes, i + 1, Append(result, NodeObj(raw_nodes[i])))

ExtractAllNodes(raw_nodes) == ExtractLoop(raw_nodes, 1, <<>>)

----------------------------------------------------------------------------
(* RoadmapParser._build_parent_graph *)

\* A raw edge: source and target are NoId when missing or empty.
RawEdge(source, target) == [source |-> source, target |-> target]

\* ParentGraphStep with "if target not in parent_of" added: the first parent wins.
ParentGraphStepFirstWins(parent_map, edge) ==
    IF edge.source # NoId /\ edge.target # NoId /\ edge.target \notin DOMAIN parent_map
    THEN [id \in DOMAIN parent_map \cup {edge.target} |->
             IF id = edge.target THEN edge.source ELSE parent_map[id]]
    ELSE parent_map

\* The body of the edge loop: "if source and target: parent_of[target] = source"
ParentGraphStep(parent_map, edge) ==
    IF edge.source # NoId /\ edge.target # NoId
    THEN [id \in DOMAIN parent_map \cup {edge.target} |->
             IF id = edge.target THEN edge.source ELSE parent_map[id]]
    ELSE parent_map

\* The empty dict.
EmptyDict == [id \in {} |-> NoId]

----------------------------------------------------------------------------
(* RoadmapParser._find_ancestor_chain *)

\* max_depth, the default of _find_ancestor_chain
max_depth == 10

\* WalkLoop with range(max_depth + 1).
RECURSIVE WalkLoopOneMore(_, _, _, _, _)
WalkLoopOneMore(current_id, ancestors, steps, parent_map, nodes_by_id) ==
    IF steps = max_depth + 1
    THEN [ancestors |-> ancestors, steps |-> steps, lookups |-> steps,
          broke |-> FALSE, current |-> current_id]
    ELSE LET parent_id == GetParent(parent_map, current_id) IN
         IF parent_id = NoId
         THEN [ancestors |-> ancestors, steps |-> steps, lookups |-> steps + 1,
               broke |-> TRUE, current |-> current_id]
         ELSE WalkLoopOneMore(parent_id,
                              IF parent_id \in DOMAIN nodes_by_id
                                 /\ nodes_by_id[parent_id].label # Empty
                              THEN Append(ancestors, nodes_by_id[parent_id])
                              ELSE ancestors,
                              steps + 1, parent_map, nodes_by_id)

\* WalkLoop with a break where the parent id is not in nodes_by_id.
RECURSIVE WalkLoopStopsAtUnknown(_, _, _, _, _)
WalkLoopStopsAtUnknown(current_id, ancestors, steps, parent_map, nodes_by_id) ==
    IF steps = max_depth
    THEN [ancestors |-> ancestors, steps |-> steps, lookups |-> steps,
          broke |-> FALSE, current |-> current_id]
    ELSE LET parent_id == GetParent(parent_map, current_id) IN
         IF parent_id = NoId \/ parent_id \notin DOMAIN nodes_by_id
         THEN [ancestors |-> ancestors, steps |-> steps, lookups |-> steps + 1,
               broke |-> TRUE, current |-> current_id]
         ELSE WalkLoopStopsAtUnknown(parent_id,
                                     Append(ancestors, nodes_by_id[parent_id]),
                                     steps + 1, parent_map, nodes_by_id)

\* WalkLoop collecting the current node in place of its parent.
RECURSIVE WalkLoopFromSelf(_, _, _, _, _)
WalkLoopFromSelf(current_id, ancestors, steps, parent_map, nodes_by_id) ==
    IF steps = max_depth
    THEN [ancestors |-> ancestors, steps |-> steps, lookups |-> steps,
          broke |-> FALSE, current |-> current_id]
    ELSE LET parent_id == GetParent(parent_map, current_id) IN
         IF parent_id = NoId
         THEN [ancestors |-> ancestors, steps |-> steps, lookups |-> steps + 1,
               broke |-> TRUE, current |-> current_id]
         ELSE WalkLoopFromSelf(parent_id,
                               IF current_id \in DOMAIN nodes_by_id
                                  /\ nodes_by_id[current_id].label # Empty
                               THEN Append(ancestors, nodes_by_id[current_id])
                               ELSE ancestors,
                               steps + 1, parent_map, nodes_by_id)

\* The loop "for _ in range(max_depth)".  steps counts the iterations that ran
\* to their end, lookups the calls of parent_map.get, broke whether the loop
\* left by its break, current the value of current_id when the loop stopped.
RECURSIVE WalkLoop(_, _, _, _, _)
WalkLoop(current_id, ancestors, steps, parent_map, nodes_by_id) ==
    IF steps = max_depth
    THEN [ancestors |-> ancestors, steps |-> steps, lookups |-> steps,
          broke |-> FALSE, current |-> current_id]
    ELSE LET parent_id == GetParent(parent_map, current_id) IN
         IF parent_id = NoId
         THEN [ancestors |-> ancestors, steps |-> steps, lookups |-> steps + 1,
               broke |-> TRUE, current |-> current_id]
         ELSE WalkLoop(parent_id,
                       IF parent_id \in DOMAIN nodes_by_id
                          /\ nodes_by_id[parent_id].label # Empty
                       THEN Append(ancestors, nodes_by_id[parent_id])
                       ELSE ancestors,
                       steps + 1, parent_map, nodes_by_id)

FindAncestorChain(node_id, parent_map, nodes_by_id) ==
    WalkLoop(node_id, <<>>, 0, parent_map, nodes_by_id)

----------------------------------------------------------------------------
(* RoadmapParser._infer_from_siblings, RoadmapParser._detect_hierarchy *)

\* InferFromSiblings giving the default where the parent has no label to give.
InferFromSiblingsDefault(node, parent_map, nodes_by_id, default) ==
    LET parent_id == GetParent(parent_map, node.id) IN
    IF /\ parent_id # NoId
       /\ parent_id \in DOMAIN nodes_by_id
       /\ nodes_by_id[parent_id].label # Empty
    THEN nodes_by_id[parent_id].label
    ELSE default

\* RoadmapParser._infer_from_siblings
InferFromSiblings(node, parent_map, nodes_by_id, default) ==
    LET parent_id == GetParent(parent_map, node.id) IN
    IF /\ parent_id # NoId
       /\ parent_id \in DOMAIN nodes_by_id
       /\ nodes_by_id[parent_id].label # Empty
    THEN nodes_by_id[parent_id].label
    ELSE IF node.label # Empty THEN node.label ELSE default

\* [a for a in ancestors if a.type in ['label', 'topic', 'paragraph']]
Meaningful(ancestors) == SelectSeq(ancestors, LAMBDA a : a.type \in MeaningfulTypes)

\* DetectHierarchy without its branch for a single meaningful ancestor.
DetectHierarchyNoSingle(topic_node, parent_map, nodes_by_id, default) ==
    LET ancestors == FindAncestorChain(topic_node.id, parent_map, nodes_by_id).ancestors
        meaningful == Meaningful(ancestors)
    IN  IF ancestors = <<>>
        THEN <<InferFromSiblings(topic_node, parent_map, nodes_by_id, default), Empty>>
        ELSE IF Len(meaningful) = 0 THEN <<default, Empty>>
        ELSE <<meaningful[Len(meaningful)].label, meaningful[1].label>>

\* DetectHierarchy with the nearest ancestor as category, the furthest as subcategory.
DetectHierarchySwapped(topic_node, parent_map, nodes_by_id, default) ==
    LET ancestors == FindAncestorChain(topic_node.id, parent_map, nodes_by_id).ancestors
        meaningful == Meaningful(ancestors)
    IN  IF ancestors = <<>>
        THEN <<InferFromSiblings(topic_node, parent_map, nodes_by_id, default), Empty>>
        ELSE IF Len(meaningful) = 0 THEN <<default, Empty>>
        ELSE IF Len(meaningful) = 1 THEN <<meaningful[1].label, Empty>>
        ELSE <<meaningful[1].label, meaningful[Len(meaningful)].label>>

\* DetectHierarchy classifying by the unfiltered ancestors.
DetectHierarchyUnfiltered(topic_node, parent_map, nodes_by_id, default) ==
    LET ancestors == FindAncestorChain(topic_node.id, parent_map, nodes_by_id).ancestors
    IN  IF ancestors = <<>>
        THEN <<InferFromSiblings(topic_node, parent_map, nodes_by_id, default), Empty>>
        ELSE IF Len(ancestors) = 1 THEN <<ancestors[1].label, Empty>>
        ELSE <<ancestors[Len(ancestors)].label, ancestors[1].label>>

\* The pair (category, subcategory); default is self.category.
DetectHierarchy(topic_node, parent_map, nodes_by_id, default) ==
    LET ancestors == FindAncestorChain(topic_node.id, parent_map, nodes_by_id).ancestors
        meaningful == Meaningful(ancestors)
    IN  IF ancestors = <<>>
        THEN <<InferFromSiblings(topic_node, parent_map, nodes_by_id, default), Empty>>
        ELSE IF Len(meaningful) = 0 THEN <<default, Empty>>
        ELSE IF Len(meaningful) = 1 THEN <<meaningful[1].label, Empty>>
        ELSE <<meaningful[Len(meaningful)].label, meaningful[1].label>>

----------------------------------------------------------------------------
(* RoadmapParser.extract_topics *)

\* TopicNodes with 'subtopic' left out of the list of kinds.
TopicNodesOnlyTopic(node_list) == SelectSeq(node_list, LAMBDA n : n.type = "topic")

\* topic_nodes = [n for n in all_nodes if n.type in ['topic', 'subtopic']]
TopicNodes(node_list) == SelectSeq(node_list, LAMBDA n : n.type \in TopicTypes)

\* The record extract_topics appends for one topic node.
TopicData(topic_node, parent_map, nodes_by_id, default) ==
    LET h == DetectHierarchy(topic_node, parent_map, nodes_by_id, default) IN
    [id |-> topic_node.id, label |-> topic_node.label, type |-> topic_node.type,
     position |-> [x |-> topic_node.x, y |-> topic_node.y],
     category |-> h[1], subcategory |-> h[2]]

\* roadmap_name's default in RoadmapParser.__init__: "engineering-manager"
DefaultRoadmapName ==
    <<"e", "n", "g", "i", "n", "e", "e", "r", "i", "n", "g", "-",
      "m", "a", "n", "a", "g", "e", "r">>

\* The roadmap names a caller constructs the parser with.
RoadmapNames == {DefaultRoadmapName, <<"c", "A">>, <<"-">>}

\* The label the inputs give the node of an id.
LabelOf(id) == <<ToUpper(id)>>

\* The raw nodes the inputs are drawn from: well-formed nodes of every kind
\* (a "section" is a layout-only kind), and the malformed ones: no position,
\* no label (and a non-numeric coordinate, which is then never converted), a
\* non-numeric coordinate, a non-numeric width.
RawNodes ==
    {RawNode("a", "topic", "10", "50", "10", Absent, LabelOf("a"))}
    \cup {RawNode("b", type, "10", "50", "10", Absent, LabelOf("b")) :
              type \in {"subtopic", "label"}}
    \cup {RawNode("c", type, "0", "0", "50", "10", LabelOf("c")) :
              type \in {"paragraph", "section"}}
    \cup {RawNode("a", "topic", Absent, Absent, "10", Absent, LabelOf("a")),
          RawNode("a", "topic", "10", "abc", "10", Absent, Empty),
          RawNode("a", "topic", "abc", "50", "10", Absent, LabelOf("a")),
          RawNode("a", "topic", "10", "50", "wide", Absent, LabelOf("a"))}

\* The raw edges the inputs are drawn from.
RawEdges == {RawEdge(s, t) : s \in Ids \cup {NoId}, t \in Ids \cup {NoId}}

\* The variables of the other specifications keep their initial values.
IdleEdges == edges = <<>>
IdleBox ==
    /\ box_self = [x |-> 0, y |-> 0, width |-> 0, height |-> 0]
    /\ box_other = [x |-> 0, y |-> 0, width |-> 0, height |-> 0]
    /\ box_result = <<>>
IdleHierarchy == hpc = "extracted" /\ nodes_list = <<>>
IdleSweep ==
    /\ spc = "start"
    /\ page_height = 1
    /\ viewport_height = 1
    /\ scroll_positions = <<>>
    /\ visited = <<>>
    /\ nodes_at_position = <<>>
    /\ nodes_set = {}
IdleContent == content = <<>> /\ parsed = <<>>
IdleRows == rpc = "process" /\ topic_i = 0 /\ content_cache = <<>> /\ data_rows = <<>>
IdleEnrich ==
    /\ epc = "check"
    /\ cache = <<>>
    /\ uncached_rows = <<>>
    /\ batch_num = 0
    /\ fallback_at = 0
    /\ csv_rows = <<>>
    /\ runs = 1
IdleRetry ==
    /\ gpc = "attempt"
    /\ max_retries = 3
    /\ attempt = 0
    /\ outcomes = <<>>
    /\ retry_out = [kind |-> "none"]
IdleFetch ==
    /\ fpc = "fetch"
    /\ files_list = <<>>
    /\ downloads = <<>>
    /\ seq_at = 0
    /\ seq_cache = <<>>
    /\ async_done = FALSE
    /\ async_cache = <<>>
    /\ pool_pending = {}
    /\ pool_cache = <<>>
IdleRest == IdleRows /\ IdleEnrich /\ IdleRetry /\ IdleFetch

\* RoadmapParser.__init__, and the locals of extract_topics before its loops
Init ==
    /\ pc = "nodes"
    /\ roadmap_name = DefaultRoadmapName
    /\ category = FormatCategoryName(roadmap_name)
    /\ nodes = <<>>
    /\ all_nodes = <<>>
    /\ parent_of = EmptyDict
    /\ topics = <<>>
    /\ IdleEdges
    /\ IdleBox
    /\ IdleHierarchy
    /\ IdleSweep
    /\ IdleContent
    /\ IdleRest

\* One iteration of the node loop of _extract_all_nodes, on the next raw node.
ExtractNode(node) ==
    /\ pc = "nodes"
    /\ Len(nodes) < MaxNodes
    /\ nodes' = Append(nodes, node)
    /\ IF Skipped(node)
       THEN pc' = pc /\ all_nodes' = all_nodes
       ELSE IF FloatRaises(node)
            THEN pc' = "raised" /\ all_nodes' = all_nodes
            ELSE pc' = pc /\ all_nodes' = Append(all_nodes, NodeObj(node))
    /\ UNCHANGED <<roadmap_name, category, parent_of, topics, edges>>
    /\ UNCHANGED bvars
    /\ UNCHANGED <<hvars, svars, cvars, xvars>>

\* _extract_all_nodes returns; extract_topics goes on to _build_parent_graph.
EndNodes ==
    /\ pc = "nodes"
    /\ pc' = "edges"
    /\ UNCHANGED <<roadmap_name, category, nodes, all_nodes, parent_of, topics, edges>>
    /\ UNCHANGED bvars
    /\ UNCHANGED <<hvars, svars, cvars, xvars>>

\* One iteration of the edge loop of _build_parent_graph, on the next raw edge.
BuildEdge(edge) ==
    /\ pc = "edges"
    /\ parent_of' = ParentGraphStep(parent_of, edge)
    /\ UNCHANGED <<pc, roadmap_name, category, nodes, all_nodes, topics, edges>>
    /\ UNCHANGED bvars
    /\ UNCHANGED <<hvars, svars, cvars, xvars>>

\* The rest of extract_topics: nodes_by_id, topic_nodes, and the loop that
\* resolves every topic node.
ResolveTopics ==
    /\ pc = "edges"
    /\ pc' = "done"
    /\ LET nodes_by_id == NodesById(all_nodes)
           topic_nodes == TopicNodes(all_nodes)
       IN  topics' = [i \in 1..Len(topic_nodes) |->
                         TopicData(topic_nodes[i], parent_of, nodes_by_id, category)]
    /\ UNCHANGED <<roadmap_name, category, nodes, all_nodes, parent_of, edges>>
    /\ UNCHANGED bvars
    /\ UNCHANGED <<hvars, svars, cvars, xvars>>

Next ==
    \/ \E node \in RawNodes : ExtractNode(node)
    \/ EndNodes
    \/ \E edge \in RawEdges : BuildEdge(edge)
    \/ ResolveTopics

Spec == Init /\ [][Next]_vars

----------------------------------------------------------------------------
(* SpecEdges: extract_topics with the edge list kept *)

\* The node lists SpecEdges runs on: the label-then-topic list of the spec's
\* example, and a list with two topics, a layout node and a skipped node.
NodeFixtures ==
    {<<RawNode("b", "label", "0", "0", "10", Absent, LabelOf("b")),
       RawNode("a", "topic", "10", "50", "10", Absent, LabelOf("a"))>>,
     <<RawNode("a", "topic", "10", "50", "10", Absent, LabelOf("a")),
       RawNode("c", "section", "0", "0", "50", "10", LabelOf("c")),
       RawNode("a", "topic", "10", "50", "10", Absent, Empty),
       RawNode("b", "subtopic", "10", "50", "10", Absent, LabelOf("b"))>>}

\* extract_topics after _extract_all_nodes has returned, before the edge loop.
InitEdges ==
    /\ pc = "edges"
    /\ roadmap_name \in RoadmapNames
    /\ category = FormatCategoryName(roadmap_name)
    /\ nodes \in NodeFixtures
    /\ all_nodes = ExtractAllNodes(nodes).result
    /\ parent_of = EmptyDict
    /\ topics = <<>>
    /\ edges = <<>>
    /\ IdleBox
    /\ IdleHierarchy
    /\ IdleSweep
    /\ IdleContent
    /\ IdleRest

\* One iteration of the edge loop, the edge read appended to edges.
ReadEdge(edge) ==
    /\ pc = "edges"
    /\ Len(edges) < MaxEdges
    /\ edges' = Append(edges, edge)
    /\ parent_of' = ParentGraphStep(parent_of, edge)
    /\ UNCHANGED <<pc, roadmap_name, category, nodes, all_nodes, topics>>
    /\ UNCHANGED bvars
    /\ UNCHANGED <<hvars, svars, cvars, xvars>>

NextEdges ==
    \/ \E edge \in RawEdges : ReadEdge(edge)
    \/ ResolveTopics

SpecEdges == InitEdges /\ [][NextEdges]_vars

----------------------------------------------------------------------------
(* BoundingBox.contains (src/browser_legacy/nodes.py) *)

\* BoundingBox(x, y, width, height).  Coordinates are whole units here; the
\* code's are floats, and its comparisons are exact on such values.
BoundingBox(x, y, width, height) == [x |-> x, y |-> y, width |-> width, height |-> height]

\* tolerance, the default of BoundingBox.contains (3.0)
DefaultTolerance == 3

\* contains with < for <=.
ContainsStrict(self, other, tolerance) ==
    /\ self.x - tolerance < other.x
    /\ self.y - tolerance < other.y
    /\ self.x + self.width + tolerance > other.x + other.width
    /\ self.y + self.height + tolerance > other.y + other.height

\* BoundingBox.contains
Contains(self, other, tolerance) ==
    /\ self.x - tolerance <= other.x
    /\ self.y - tolerance <= other.y
    /\ self.x + self.width + tolerance >= other.x + other.width
    /\ self.y + self.height + tolerance >= other.y + other.height

\* The boxes contains() is called on, and how far an edge of the other box
\* may lie outside (positive) or inside (negative) the edge it faces.
SelfBoxes == {BoundingBox(x, y, 10, 10) : x \in 0..MaxCoord, y \in 0..MaxCoord}
Offsets == (0 - MaxCoord)..(DefaultTolerance + MaxCoord)

\* The box whose left, top, right and bottom edges lie left, top, right and
\* bottom units outside those of box.
BoxOutsideBy(box, left, top, right, bottom) ==
    BoundingBox(box.x - left, box.y - top,
                box.width + left + right, box.height + top + bottom)

\* The variables of extract_topics keep these values in SpecBox.
IdleGraph ==
    /\ pc = "nodes"
    /\ roadmap_name = DefaultRoadmapName
    /\ category = FormatCategoryName(roadmap_name)
    /\ nodes = <<>>
    /\ all_nodes = <<>>
    /\ parent_of = EmptyDict
    /\ topics = <<>>
    /\ edges = <<>>

\* Two boxes, before contains() is called.
InitBox ==
    /\ IdleGraph
    /\ box_self \in SelfBoxes
    /\ \E l \in Offsets, t \in Offsets, r \in Offsets, b \in Offsets :
          box_other = BoxOutsideBy(box_self, l, t, r, b)
    /\ box_result = <<>>
    /\ IdleHierarchy
    /\ IdleSweep
    /\ IdleContent
    /\ IdleRest

\* self.contains(other), with the default tolerance
CallContains ==
    /\ box_result = <<>>
    /\ box_result' = <<Contains(box_self, box_other, DefaultTolerance)>>
    /\ UNCHANGED <<box_self, box_other, edges>>
    /\ UNCHANGED gvars
    /\ UNCHANGED <<hvars, svars, cvars, xvars>>

NextBox == CallContains

SpecBox == InitBox /\ [][NextBox]_vars

----------------------------------------------------------------------------
(* RoadmapNode and NodeExtractor.infer_hierarchy (src/browser_legacy/nodes.py) *)

\* A float of the visual path is the whole number of its halves: F(3) is 3.0
\* and 7 is 3.5, so that round() has halves to round.  Sums, differences and
\* comparisons of such floats are exact.
F(n) == 2 * n

\* round(v): the nearest whole number, and of the two nearest the even one.
Round(v) ==
    LET below == v \div 2 IN
    IF v % 2 = 0 THEN below
    ELSE IF below % 2 = 0 THEN below ELSE below + 1

\* hash(n) of a whole number n: n itself, except that the hash of -1 is -2.
IntHash(n) == IF n = -1 THEN -2 ELSE n

\* RoadmapNode.__hash__: the hash of the tuple (text, round(x), round(y),
\* round(width), round(height)).  The hash of a tuple is computed from the
\* hashes of its members; it is kept here as the tuple of those hashes (the
\* text standing for its own hash), so two tuples hash alike exactly when
\* their members do.
NodeHash(node) ==
    <<node.text, IntHash(Round(node.bbox.x)), IntHash(Round(node.bbox.y)),
      IntHash(Round(node.bbox.width)), IntHash(Round(node.bbox.height))>>

\* RoadmapNode.__eq__: "return hash(self) == hash(other)"
NodeEq(a, b) == NodeHash(a) = NodeHash(b)

\* NodeExtractor.CONTAINER_WIDTH_THRESHOLD, CONTAINER_HEIGHT_THRESHOLD
CONTAINER_WIDTH_THRESHOLD == 300
CONTAINER_HEIGHT_THRESHOLD == 150

\* ClassifyNodeType with the thresholds of a tenth the size.
ClassifyNodeTypeSmall(bbox) ==
    IF \/ bbox.width > F(CONTAINER_WIDTH_THRESHOLD) \div 10
       \/ bbox.height > F(CONTAINER_HEIGHT_THRESHOLD) \div 10
    THEN "container" ELSE "leaf"

\* NodeExtractor._classify_node_type
ClassifyNodeType(bbox) ==
    IF \/ bbox.width > F(CONTAINER_WIDTH_THRESHOLD)
       \/ bbox.height > F(CONTAINER_HEIGHT_THRESHOLD)
    THEN "container" ELSE "leaf"

\* RoadmapNode(text=text, bbox=bbox, element=element, node_type=node_type), as
\* _extract_visible_nodes makes it; the element handle plays no part here.
RoadmapNode(text, bbox) ==
    [text |-> text, bbox |-> bbox, node_type |-> ClassifyNodeType(bbox),
     category |-> "", subcategory |-> ""]

\* BoundingBox.overlaps_x
OverlapsX(self, other) ==
    ~(self.x + self.width < other.x \/ other.x + other.width < self.x)

\* key=lambda c: c.bbox.width * c.bbox.height
Area(c) == c.bbox.width * c.bbox.height

\* The keys list.sort(key=...) computes, one for each element.
AreaKeys(seq) == [i \in 1..Len(seq) |-> Area(seq[i])]

\* FirstLeast taking the last of the places with the least key.
LastLeast(keys) ==
    CHOOSE i \in 1..Len(keys) :
        /\ \A j \in 1..Len(keys) : keys[i] <= keys[j]
        /\ \A j \in (i + 1)..Len(keys) : keys[j] # keys[i]

\* FirstLeast taking the first of the places with the greatest key.
FirstGreatest(keys) ==
    CHOOSE i \in 1..Len(keys) :
        /\ \A j \in 1..Len(keys) : keys[i] >= keys[j]
        /\ \A j \in 1..(i - 1) : keys[j] # keys[i]

\* seq.sort(key=...) and then seq[0]: the sort is stable, so seq[0] is the
\* element that stood at the first of the places with the least key.
FirstLeast(keys) ==
    CHOOSE i \in 1..Len(keys) :
        /\ \A j \in 1..Len(keys) : keys[i] <= keys[j]
        /\ \A j \in 1..(i - 1) : keys[j] # keys[i]

\* containers = [n for n in nodes if n.node_type == 'container']
ContainersOf(node_list) == SelectSeq(node_list, LAMBDA n : n.node_type = "container")

\* PotentialParents without "c != container".
PotentialParentsWithSelf(container, containers) ==
    SelectSeq(containers,
              LAMBDA c : Contains(c.bbox, container.bbox, F(DefaultTolerance)))

\* [c for c in containers if c != container and c.bbox.contains(container.bbox)]
PotentialParents(container, containers) ==
    SelectSeq(containers,
              LAMBDA c : /\ ~NodeEq(c, container)
                         /\ Contains(c.bbox, container.bbox, F(DefaultTolerance)))

\* The dict container_parents, read for the i-th container.  The dict is keyed
\* by node, so an entry is shared by the containers that are equal: the entry
\* is there when one of them has potential parents, and holds what the last
\* of those wrote.
InContainerParents(i, containers) ==
    \E j \in 1..Len(containers) :
        /\ NodeEq(containers[j], containers[i])
        /\ PotentialParents(containers[j], containers) # <<>>
ContainerParent(i, containers) ==
    LET writers == {j \in 1..Len(containers) :
                        /\ NodeEq(containers[j], containers[i])
                        /\ PotentialParents(containers[j], containers) # <<>>}
        last == CHOOSE j \in writers : \A k \in writers : k <= j
        potential_parents == PotentialParents(containers[last], containers)
    IN  potential_parents[FirstLeast(AreaKeys(potential_parents))]

\* AssignContainers giving every container its own text as category.
AssignContainersOwnText(containers) ==
    [i \in 1..Len(containers) |->
        [containers[i] EXCEPT !.category = containers[i].text,
                              !.subcategory = IF InContainerParents(i, containers)
                                              THEN containers[i].text ELSE ""]]

\* The second loop over the containers: category and subcategory of each.
AssignContainers(containers) ==
    [i \in 1..Len(containers) |->
        IF InContainerParents(i, containers)
        THEN [containers[i] EXCEPT !.category = ContainerParent(i, containers).text,
                                   !.subcategory = containers[i].text]
        ELSE [containers[i] EXCEPT !.category = containers[i].text,
                                   !.subcategory = ""]]

\* NodeExtractor._find_nearest_header; containers have their categories.
FindNearestHeader(leaf, containers) ==
    LET candidates ==
            SelectSeq(containers,
                      LAMBDA c : c.bbox.y < leaf.bbox.y /\ OverlapsX(c.bbox, leaf.bbox))
        Gap(c) == leaf.bbox.y - (c.bbox.y + c.bbox.height)
        nearest == candidates[FirstLeast([i \in 1..Len(candidates) |-> Gap(candidates[i])])]
    IN  IF candidates = <<>> THEN <<"Uncategorized", "">>
        ELSE <<nearest.category, nearest.subcategory>>

\* AssignLeaf taking the largest enclosing container.
AssignLeafLargest(leaf, containers) ==
    LET enclosing_containers ==
            SelectSeq(containers,
                      LAMBDA c : Contains(c.bbox, leaf.bbox, F(DefaultTolerance)))
        smallest_container == enclosing_containers[FirstGreatest(AreaKeys(enclosing_containers))]
        pair == IF enclosing_containers # <<>>
                THEN <<smallest_container.category, smallest_container.subcategory>>
                ELSE FindNearestHeader(leaf, containers)
    IN  [leaf EXCEPT !.category = pair[1], !.subcategory = pair[2]]

\* The body of the loop over the leaves; containers have their categories.
AssignLeaf(leaf, containers) ==
    LET enclosing_containers ==
            SelectSeq(containers,
                      LAMBDA c : Contains(c.bbox, leaf.bbox, F(DefaultTolerance)))
        smallest_container == enclosing_containers[FirstLeast(AreaKeys(enclosing_containers))]
        pair == IF enclosing_containers # <<>>
                THEN <<smallest_container.category, smallest_container.subcategory>>
                ELSE FindNearestHeader(leaf, containers)
    IN  [leaf EXCEPT !.category = pair[1], !.subcategory = pair[2]]

\* NodeExtractor.infer_hierarchy: the list it returns, which is the list it
\* was given with the fields of every container and every leaf set.
InferHierarchy(node_list) ==
    LET containers == AssignContainers(ContainersOf(node_list))
        rank(i) == Len(ContainersOf(SubSeq(node_list, 1, i)))
    IN  [i \in 1..Len(node_list) |->
            IF node_list[i].node_type = "container" THEN containers[rank(i)]
            ELSE IF node_list[i].node_type = "leaf"
                 THEN AssignLeaf(node_list[i], containers)
                 ELSE node_list[i]]

\* An element of the page: its text and its box, in whole units.
Element(text, x, y, width, height) ==
    [text |-> text, bbox |-> BoundingBox(F(x), F(y), F(width), F(height))]

\* The elements the pages are made of: three nested boxes with a leaf in the
\* innermost; the two elements "Tools" and "Git"; two headers with the same
\* bottom edge; two boxes on the same place; a header beside a box, and a
\* leaf that sticks out of that box.
VisualElements ==
    {Element("A", 0, 0, 1000, 1000), Element("B", 100, 100, 600, 600),
     Element("C", 200, 200, 400, 400), Element("L", 250, 250, 80, 30),
     Element("Tools", 0, 0, 200, 40), Element("Git", 20, 100, 80, 30),
     Element("C1", 0, 0, 400, 40), Element("C2", 100, 0, 400, 40),
     Element("X", 0, 0, 400, 400), Element("Management", 0, 0, 400, 400),
     Element("Y", 300, 50, 400, 40), Element("Lx", 390, 100, 80, 30)}

\* key=lambda n: (n.bbox.y, n.bbox.x): a comes no later than b.
SortKeyLeq(a, b) ==
    a.bbox.y < b.bbox.y \/ (a.bbox.y = b.bbox.y /\ a.bbox.x <= b.bbox.x)

\* extract_all_nodes has not returned a list yet.
InitHierarchy ==
    /\ IdleGraph
    /\ IdleBox
    /\ IdleSweep
    /\ IdleContent
    /\ hpc = "extracted"
    /\ nodes_list = <<>>
    /\ IdleRest

\* The next node of the list extract_all_nodes returns: the list is sorted by
\* (y, x), nodes with the same (y, x) in any order, and it comes from a set,
\* so it holds no two equal nodes.
ListNode(element) ==
    /\ hpc = "extracted"
    /\ Len(nodes_list) < MaxVisual
    /\ LET node == RoadmapNode(element.text, element.bbox) IN
       /\ \A i \in 1..Len(nodes_list) :
              ~NodeEq(nodes_list[i], node) /\ SortKeyLeq(nodes_list[i], node)
       /\ nodes_list' = Append(nodes_list, node)
    /\ UNCHANGED <<hpc, edges>>
    /\ UNCHANGED <<gvars, bvars, svars, cvars, xvars>>

\* nodes = extractor.infer_hierarchy(nodes)
InferHierarchyCall ==
    /\ hpc = "extracted"
    /\ hpc' = "inferred"
    /\ nodes_list' = InferHierarchy(nodes_list)
    /\ UNCHANGED edges
    /\ UNCHANGED <<gvars, bvars, svars, cvars, xvars>>

NextHierarchy ==
    \/ \E element \in VisualElements : ListNode(element)
    \/ InferHierarchyCall

SpecHierarchy == InitHierarchy /\ [][NextHierarchy]_vars

----------------------------------------------------------------------------
(* NodeExtractor.extract_all_nodes (src/browser_legacy/nodes.py) *)

\* list(range(0, page_height, viewport_height)) from offset y on.
RECURSIVE Range(_, _, _)
Range(y, stop, step) ==
    IF y >= stop THEN <<>> ELSE <<y>> \o Range(y + step, stop, step)

\* ScrollPositions without "if scroll_positions[-1] < page_height: append".
ScrollPositionsRangeOnly(height, viewport) == Range(0, height, viewport)

\* scroll_positions: the range, and page_height after it when the last offset
\* of the range is smaller.  (An empty range has no last offset: the code
\* raises there, and height is at least 1 here.)
ScrollPositions(height, viewport) ==
    LET positions == Range(0, height, viewport) IN
    IF positions[Len(positions)] < height
    THEN Append(positions, height)
    ELSE positions

\* nodes_set.update(found): a node goes into the set unless the set holds an
\* equal one, which then stays.
RECURSIVE SetUpdate(_, _)
SetUpdate(set, found) ==
    IF found = <<>> THEN set
    ELSE SetUpdate(IF \E m \in set : NodeEq(m, Head(found))
                   THEN set
                   ELSE set \cup {Head(found)},
                   Tail(found))

\* An element as _extract_visible_nodes sees it: x, width and height are whole
\* units, y is given in halves.
ElementAtHalf(text, y2) ==
    [text |-> text, bbox |-> BoundingBox(F(0), y2, F(10), F(10))]

\* The elements a sweep meets: "t" at y = -2.0, -1.0, 0.0 and 0.5, and "u" at
\* y = 0.0.  An element above the viewport has a negative y.
SweepElements ==
    {ElementAtHalf("t", y2) : y2 \in {F(-2), F(-1), F(0), 1}}
    \cup {ElementAtHalf("u", F(0))}

\* What _extract_visible_nodes may return: the lists of at most MaxFound nodes.
FoundLists ==
    UNION {[1..n -> {RoadmapNode(el.text, el.bbox) : el \in SweepElements}] :
               n \in 0..MaxFound}

\* sorted(nodes_set, key=lambda n: (n.bbox.y, n.bbox.x)): the lists of all the
\* nodes of the set in which no node comes before one with a smaller key.
SortedLists(set) ==
    {seq \in [1..Cardinality(set) -> set] :
        /\ \A i \in 1..Len(seq), j \in 1..Len(seq) : i # j => seq[i] # seq[j]
        /\ \A i \in 1..Len(seq), j \in 1..Len(seq) :
               i < j => SortKeyLeq(seq[i], seq[j])}

\* extract_all_nodes, after it has read the two heights.
InitSweep ==
    /\ IdleGraph
    /\ IdleBox
    /\ IdleHierarchy
    /\ IdleContent
    /\ spc = "start"
    /\ page_height \in 1..MaxPage
    /\ viewport_height \in 1..MaxViewport
    /\ scroll_positions = <<>>
    /\ visited = <<>>
    /\ nodes_at_position = <<>>
    /\ nodes_set = {}
    /\ IdleRest

\* "Calculate scroll positions"
ComputePositions ==
    /\ spc = "start"
    /\ spc' = "sweep"
    /\ scroll_positions' = ScrollPositions(page_height, viewport_height)
    /\ UNCHANGED <<page_height, viewport_height, visited, nodes_at_position, nodes_set>>
    /\ UNCHANGED edges
    /\ UNCHANGED <<gvars, bvars, hvars, cvars, xvars>>

\* One iteration of the loop over scroll_positions: scroll to the next
\* offset, extract what is there, update the set.
ScrollStep(found) ==
    /\ spc = "sweep"
    /\ Len(visited) < Len(scroll_positions)
    /\ visited' = Append(visited, scroll_positions[Len(visited) + 1])
    /\ nodes_at_position' = found
    /\ nodes_set' = SetUpdate(nodes_set, found)
    /\ UNCHANGED <<spc, page_height, viewport_height, scroll_positions>>
    /\ UNCHANGED edges
    /\ UNCHANGED <<gvars, bvars, hvars, cvars, xvars>>

\* After the loop: the sorted list is returned.
ReturnSorted(sorted) ==
    /\ spc = "sweep"
    /\ Len(visited) = Len(scroll_positions)
    /\ spc' = "returned"
    /\ nodes_list' = sorted
    /\ UNCHANGED <<page_height, viewport_height, scroll_positions, visited,
                   nodes_at_position, nodes_set>>
    /\ UNCHANGED <<hpc, edges>>
    /\ UNCHANGED <<gvars, bvars, cvars, xvars>>

NextSweep ==
    \/ ComputePositions
    \/ \E found \in FoundLists : ScrollStep(found)
    \/ \E sorted \in SortedLists(nodes_set) : ReturnSorted(sorted)

SpecSweep == InitSweep /\ [][NextSweep]_vars

----------------------------------------------------------------------------
(* RoadmapParser.parse_content (src/json_parser.py) *)

\* The line separator, and the characters str.strip() and \s take for space.
NL == "\n"
IsSpace(c) == c \in {" ", NL, "\t", "\r"}

\* content.split('\n')
RECURSIVE SplitLines(_)
SplitLines(s) ==
    IF \A i \in 1..Len(s) : s[i] # NL THEN <<s>>
    ELSE LET i == CHOOSE k \in 1..Len(s) :
                      s[k] = NL /\ \A j \in 1..(k - 1) : s[j] # NL
         IN  <<SubSeq(s, 1, i - 1)>> \o SplitLines(SubSeq(s, i + 1, Len(s)))

\* str.strip()
Strip(s) ==
    LET solid == {i \in 1..Len(s) : ~IsSpace(s[i])} IN
    IF solid = {} THEN <<>>
    ELSE SubSeq(s, CHOOSE a \in solid : \A i \in solid : a <= i,
                   CHOOSE b \in solid : \A i \in solid : i <= b)

\* str.startswith
StartsWith(s, prefix) ==
    Len(s) >= Len(prefix) /\ SubSeq(s, 1, Len(prefix)) = prefix

\* sep.join(list)
RECURSIVE Join(_, _)
Join(list, sep) ==
    IF list = <<>> THEN <<>>
    ELSE IF Len(list) = 1 THEN list[1]
    ELSE list[1] \o sep \o Join(Tail(list), sep)

\* The first place from i on where s has the character c; 0 when there is none.
IndexFrom(s, c, i) ==
    IF \E k \in i..Len(s) : s[k] = c
    THEN CHOOSE k \in i..Len(s) : s[k] = c /\ \A j \in i..(k - 1) : s[j] # c
    ELSE 0

\* A match of \[([^\]]+)\]\(([^\)]+)\) that starts at place i.  The text runs
\* to the first "]" after the "[", the url from the "(" that follows at once
\* to the first ")"; neither is empty.  at is the place where the url starts,
\* stop the place of the ")".
LinkAt(s, i) ==
    LET close == IF i <= Len(s) /\ s[i] = "[" THEN IndexFrom(s, "]", i + 1) ELSE 0
        paren == IF close > i + 1 /\ close < Len(s) /\ s[close + 1] = "("
                 THEN IndexFrom(s, ")", close + 2) ELSE 0
    IN  IF paren > close + 2
        THEN [ok |-> TRUE, text |-> SubSeq(s, i + 1, close - 1),
              url |-> SubSeq(s, close + 2, paren - 1), at |-> close + 2, stop |-> paren]
        ELSE [ok |-> FALSE, text |-> <<>>, url |-> <<>>, at |-> 0, stop |-> 0]

\* re.findall(url_pattern, content): the matches from place i on, from left
\* to right, none overlapping another.
RECURSIVE FindallLinks(_, _)
FindallLinks(s, i) ==
    IF i > Len(s) THEN <<>>
    ELSE LET m == LinkAt(s, i) IN
         IF m.ok THEN <<m>> \o FindallLinks(s, m.stop + 1)
         ELSE FindallLinks(s, i + 1)

\* re.sub(r'\[([^\]]+)\]\([^\)]+\)', r'\1', line), from place i on
RECURSIVE LinkSub(_, _)
LinkSub(s, i) ==
    IF i > Len(s) THEN <<>>
    ELSE LET m == LinkAt(s, i) IN
         IF m.ok THEN m.text \o LinkSub(s, m.stop + 1)
         ELSE <<s[i]>> \o LinkSub(s, i + 1)

Http == <<"h", "t", "t", "p">>
SchemeEnd == <<":", "/", "/">>

\* The characters of s at the places first..last, as many as s has.
Slice(s, first, last) == SubSeq(s, first, IF last > Len(s) THEN Len(s) ELSE last)

\* A match of https?://[^\s\)]+ that starts at place i: "http", an "s" or
\* none, "://", and then all the characters up to the next space or ")", of
\* which there is at least one.
BareAt(s, i) ==
    LET after == IF Slice(s, i, i + 3) = Http
                 THEN IF Slice(s, i + 4, i + 7) = <<"s">> \o SchemeEnd THEN i + 8
                      ELSE IF Slice(s, i + 4, i + 6) = SchemeEnd THEN i + 7
                      ELSE 0
                 ELSE 0
        Stops(k) == IsSpace(s[k]) \/ s[k] = ")"
        stop == IF \E k \in after..Len(s) : Stops(k)
                THEN (CHOOSE k \in after..Len(s) :
                          Stops(k) /\ \A j \in after..(k - 1) : ~Stops(j)) - 1
                ELSE Len(s)
    IN  IF after > 0 /\ after <= Len(s) /\ stop >= after
        THEN [ok |-> TRUE, url |-> SubSeq(s, i, stop), at |-> i, stop |-> stop]
        ELSE [ok |-> FALSE, url |-> <<>>, at |-> 0, stop |-> 0]

\* re.findall(bare_url_pattern, content), from place i on
RECURSIVE FindallBare(_, _)
FindallBare(s, i) ==
    IF i > Len(s) THEN <<>>
    ELSE LET m == BareAt(s, i) IN
         IF m.ok THEN <<m>> \o FindallBare(s, m.stop + 1)
         ELSE FindallBare(s, i + 1)

\* FromKeys that keeps every occurrence.
FromKeysKeepAll(list, done) == done \o list

\* list(dict.fromkeys(list)): every value once, at the place of its first
\* occurrence.
RECURSIVE FromKeys(_, _)
FromKeys(list, done) ==
    IF list = <<>> THEN done
    ELSE FromKeys(Tail(list),
                  IF \E i \in 1..Len(done) : done[i] = Head(list)
                  THEN done ELSE Append(done, Head(list)))

\* urls = [url for (text, url) in matches if url.startswith('http')]
LinkUrls(doc) ==
    LET matches == FindallLinks(doc, 1)
        http == SelectSeq(matches, LAMBDA m : StartsWith(m.url, Http))
    IN  [i \in 1..Len(http) |-> http[i].url]

\* bare_urls = re.findall(bare_url_pattern, content)
BareUrls(doc) ==
    LET matches == FindallBare(doc, 1) IN
    [i \in 1..Len(matches) |-> matches[i].url]

\* ExtractResources with the bare URLs put before the link targets.
ExtractResourcesBareFirst(doc) ==
    Join(FromKeys(BareUrls(doc) \o LinkUrls(doc), <<>>), <<"|">>)

\* RoadmapParser._extract_resources
ExtractResources(doc) ==
    Join(FromKeys(LinkUrls(doc) \o BareUrls(doc), <<>>), <<"|">>)

\* The body of the loop of _extract_description for a line that is kept: the
\* result of re.sub is assigned to line, which is not read again, and
\* stripped is what is appended.
DescriptionLine(line_in) ==
    LET stripped == Strip(line_in)
        line == LinkSub(line_in, 1)
    IN  stripped

\* RoadmapParser._extract_description
ExtractDescription(doc) ==
    LET kept == SelectSeq(SplitLines(doc),
                          LAMBDA line : /\ Strip(line) # <<>>
                                        /\ ~StartsWith(Strip(line), <<"#">>))
        lines == [i \in 1..Len(kept) |-> DescriptionLine(kept[i])]
    IN  Strip(Join(lines, <<" ">>))

\* RoadmapParser.parse_content
ParseContent(doc) ==
    IF doc = <<>> THEN [description |-> <<>>, resources |-> <<>>]
    ELSE [description |-> ExtractDescription(doc),
          resources |-> ExtractResources(doc)]

\* The pieces the documents are made of: two URLs, bare and as the target of
\* a link; a link to a page of the site; a space, a line break, a heading
\* marker and a word.
Pieces ==
    {<<"h", "t", "t", "p", ":", "/", "/", "a">>,
     <<"h", "t", "t", "p", "s", ":", "/", "/", "b">>,
     <<"[", "t", "]", "(", "h", "t", "t", "p", ":", "/", "/", "a", ")">>,
     <<"[", "u", "]", "(", "h", "t", "t", "p", "s", ":", "/", "/", "b", ")">>,
     <<"[", "v", "]", "(", "/", "c", ")">>,
     <<" ">>, <<NL>>, <<"#">>, <<"x">>}

\* The document of the example.
ExampleDocument ==
    <<"#", " ", "T", "i", "t", "l", "e", "\n", "L", "e", "a", "r", "n", " ",
      "[", "G", "i", "t", "]", "(", "h", "t", "t", "p", "s", ":", "/", "/",
      "g", "i", "t", "-", "s", "c", "m", ".", "c", "o", "m", ")", " ", "b",
      "a", "s", "i", "c", "s", ".", "\n", "S", "e", "e", " ", "a", "l", "s",
      "o", " ", "h", "t", "t", "p", "s", ":", "/", "/", "e", "x", "a", "m",
      "p", "l", "e", ".", "c", "o", "m", "/", "g", "u", "i", "d", "e">>

\* The documents parse_content is given: up to MaxPieces pieces in a row, and
\* the document of the example.
RECURSIVE Concat(_)
Concat(list) == IF list = <<>> THEN <<>> ELSE Head(list) \o Concat(Tail(list))
Documents ==
    {ExampleDocument}
    \cup UNION {{Concat(ps) : ps \in [1..n -> Pieces]} : n \in 0..MaxPieces}

\* A document, before parse_content is called on it.
InitContent ==
    /\ IdleGraph
    /\ IdleBox
    /\ IdleHierarchy
    /\ IdleSweep
    /\ content \in Documents
    /\ parsed = <<>>
    /\ IdleRest

\* parsed = self.parser.parse_content(content); parsed keeps the result of
\* every call made on the document.
CallParseContent ==
    /\ Len(parsed) < MaxCalls
    /\ parsed' = Append(parsed, ParseContent(content))
    /\ UNCHANGED <<content, edges>>
    /\ UNCHANGED <<gvars, bvars, hvars, svars, xvars>>

NextContent == CallParseContent

SpecContent == InitContent /\ [][NextContent]_vars

----------------------------------------------------------------------------
(* JSONRoadmapScraper._process_topics_with_cache (src/json_scraper.py) *)

\* \w of a regular expression: a letter, a digit or "_".
Digits == {"0", "1", "2", "3", "4", "5", "6", "7", "8", "9"}
IsWordChar(c) == IsCased(c) \/ c \in Digits \/ c = "_"

\* re.sub(r'[\s_-]+', '-', text): every run of spaces, "_" and "-" becomes
\* one "-".
IsSeparator(c) == IsSpace(c) \/ c = "_" \/ c = "-"
RECURSIVE Hyphenate(_)
Hyphenate(text) ==
    IF text = <<>> THEN <<>>
    ELSE IF IsSeparator(text[1])
         THEN IF Len(text) > 1 /\ IsSeparator(text[2])
              THEN Hyphenate(Tail(text))
              ELSE <<"-">> \o Hyphenate(Tail(text))
         ELSE <<text[1]>> \o Hyphenate(Tail(text))

\* re.sub(r'^-+|-+$', '', text), on a text in which no "-" follows another
TrimHyphens(text) ==
    LET first == IF text # <<>> /\ text[1] = "-" THEN 2 ELSE 1
        last == IF Len(text) >= first /\ text[Len(text)] = "-"
                THEN Len(text) - 1 ELSE Len(text)
    IN  SubSeq(text, first, last)

\* GitHubFetcher._slugify
Slugify(text) ==
    LET lower == [i \in 1..Len(text) |-> ToLower(text[i])]
        kept == SelectSeq(lower, LAMBDA c : IsWordChar(c) \/ IsSpace(c) \/ c = "-")
    IN  TrimHyphens(Hyphenate(kept))

\* filename_key = f"{slug}@{topic_id}"
FilenameKey(topic) == Slugify(topic.label) \o <<"@", topic.id>>

\* CSVExporter.format_row
FormatRow(category_in, subcategory, topic, description, resources) ==
    [Category |-> category_in, Subcategory |-> subcategory, Topic |-> topic,
     Description |-> description, Resources |-> resources]

\* content = content_cache.get(filename_key): the document, or None, which a
\* condition takes for false as it does the empty document.
GetContent(cache_in, key) == IF key \in DOMAIN cache_in THEN cache_in[key] ELSE <<>>

\* ProcessTopicRows with "continue" where the topic has no content.
ProcessTopicRowsSkipping(topic, cache_in, rows) ==
    LET doc == GetContent(cache_in, FilenameKey(topic))
        result == ParseContent(doc)
    IN  IF doc # <<>>
        THEN Append(rows, FormatRow(topic.category, topic.subcategory, topic.label,
                                    result.description, result.resources))
        ELSE rows

\* The body of the loop of _process_topics_with_cache: data_rows after it.
ProcessTopicRows(topic, cache_in, rows) ==
    LET doc == GetContent(cache_in, FilenameKey(topic))
        result == ParseContent(doc)
    IN  IF doc # <<>>
        THEN Append(rows, FormatRow(topic.category, topic.subcategory, topic.label,
                                    result.description, result.resources))
        ELSE Append(rows, FormatRow(topic.category, topic.subcategory, topic.label,
                                    <<>>, <<>>))

\* The topics extract_topics has resolved: "A" under "B"; "C D" under "X",
\* "Y"; "-E!_" under "Z".
ResolvedTopics ==
    {[id |-> "a", label |-> <<"A">>, type |-> "topic",
      position |-> [x |-> 10, y |-> 50],
      category |-> <<"B">>, subcategory |-> Empty],
     [id |-> "b", label |-> <<"C", " ", "D">>, type |-> "subtopic",
      position |-> [x |-> 10, y |-> 50],
      category |-> <<"X">>, subcategory |-> <<"Y">>],
     [id |-> "c", label |-> <<"-", "E", "!", "_">>, type |-> "topic",
      position |-> [x |-> 0, y |-> 0],
      category |-> <<"Z">>, subcategory |-> Empty]}

\* The keys of the files fetched: those of the topics, and the name of a file
\* that belongs to no topic.
CacheKeys ==
    {<<"a", "@", "a">>, <<"c", "-", "d", "@", "b">>, <<"e", "@", "c">>,
     <<"c", " ", "d", "@", "b">>}

\* The documents fetched: an empty file, a line of text, a link.
FetchedDocuments ==
    {<<>>, <<"x">>, <<"[", "t", "]", "(", "h", "t", "t", "p", ":", "/", "/", "a", ")">>}

\* The topics are resolved and the files fetched; the loop has not begun.
InitRows ==
    /\ pc = "done"
    /\ roadmap_name = DefaultRoadmapName
    /\ category = FormatCategoryName(roadmap_name)
    /\ nodes = <<>>
    /\ all_nodes = <<>>
    /\ parent_of = EmptyDict
    /\ topics \in UNION {[1..n -> ResolvedTopics] : n \in 0..MaxTopics}
    /\ edges = <<>>
    /\ IdleBox
    /\ IdleHierarchy
    /\ IdleSweep
    /\ IdleContent
    /\ rpc = "process"
    /\ topic_i = 0
    /\ content_cache \in UNION {[keys -> FetchedDocuments] : keys \in SUBSET CacheKeys}
    /\ data_rows = <<>>
    /\ IdleEnrich
    /\ IdleRetry
    /\ IdleFetch

\* One iteration of the loop over the topics.
ProcessTopic ==
    /\ rpc = "process"
    /\ topic_i < Len(topics)
    /\ topic_i' = topic_i + 1
    /\ data_rows' = ProcessTopicRows(topics[topic_i + 1], content_cache, data_rows)
    /\ UNCHANGED <<rpc, content_cache, edges>>
    /\ UNCHANGED <<gvars, bvars, hvars, svars, cvars, evars, tvars, fvars>>

\* return data_rows
ReturnRows ==
    /\ rpc = "process"
    /\ topic_i = Len(topics)
    /\ rpc' = "returned"
    /\ UNCHANGED <<topic_i, content_cache, data_rows, edges>>
    /\ UNCHANGED <<gvars, bvars, hvars, svars, cvars, evars, tvars, fvars>>

NextRows == ProcessTopic \/ ReturnRows

SpecRows == InitRows /\ [][NextRows]_vars

----------------------------------------------------------------------------
(* JSONRoadmapScraper._enrich_data, CSVExporter.export *)

\* EnrichmentCache.compute_hash: the MD5 of f"{category}|{subcategory}|
\* {topic}|{description}", kept as the text it is computed from.
ComputeHash(row) ==
    Join(<<row.Category, row.Subcategory, row.Topic, row.Description>>, <<"|">>)

\* BATCH_SIZE of _enrich_data
BATCH_SIZE == 20

\* CSVExporter.CSV_COLUMNS
CSV_COLUMNS == <<"Category", "Subcategory", "Topic", "Description", "Resources">>

\* row["TLDR"] = tldr; row["Challenge"] = challenge
WithEnrichment(row, tldr, challenge) ==
    [key \in DOMAIN row \cup {"TLDR", "Challenge"} |->
        IF key = "TLDR" THEN tldr
        ELSE IF key = "Challenge" THEN challenge
        ELSE row[key]]

\* cache.set(row_hash, tldr, challenge): INSERT OR REPLACE
CacheSet(table, row_hash, tldr, challenge) ==
    [h \in DOMAIN table \cup {row_hash} |->
        IF h = row_hash THEN <<tldr, challenge>> ELSE table[h]]

\* The result the model returns for a row.
ModelResult == [tldr |-> <<"s">>, challenge |-> "expert"]

\* The parsed responses to a batch prompt for n rows: results for any of the
\* ids 0..n-1, by id.
BatchResponses(n) == UNION {[ids -> {ModelResult}] : ids \in SUBSET (0..(n - 1))}

\* GeminiEnricher.enrich_batch, from the parsed response on: a result for
\* every row, in the order of the rows.
EnrichBatch(n, results) ==
    [i \in 1..n |->
        IF (i - 1) \in DOMAIN results
        THEN [tldr |-> results[i - 1].tldr, challenge |-> results[i - 1].challenge]
        ELSE [tldr |-> <<>>, challenge |-> "practice"]]

\* batches[batch]: the places in data_rows of the rows of a batch
Batch(uncached, batch) ==
    SubSeq(uncached, (batch - 1) * BATCH_SIZE + 1,
           IF batch * BATCH_SIZE < Len(uncached) THEN batch * BATCH_SIZE ELSE Len(uncached))
NumBatches(uncached) == (Len(uncached) + BATCH_SIZE - 1) \div BATCH_SIZE

\* "for row, enrichment in zip(batch, enrichments)", from place k of the
\* batch on: the rows and the cache after it.
RECURSIVE ApplyEnrichments(_, _, _, _, _)
ApplyEnrichments(rows, table, batch, enrichments, k) ==
    IF k > Len(batch) \/ k \notin DOMAIN enrichments
    THEN [rows |-> rows, cache |-> table]
    ELSE LET row == WithEnrichment(rows[batch[k]], enrichments[k].tldr,
                                   enrichments[k].challenge)
         IN  ApplyEnrichments([rows EXCEPT ![batch[k]] = row],
                              CacheSet(table, ComputeHash(row), enrichments[k].tldr,
                                       enrichments[k].challenge),
                              batch, enrichments, k + 1)

\* Phase 1 of _enrich_data: the rows with what the cache holds for them.
CheckedRows(rows, table) ==
    [i \in 1..Len(rows) |->
        IF ComputeHash(rows[i]) \in DOMAIN table
        THEN WithEnrichment(rows[i], table[ComputeHash(rows[i])][1],
                            table[ComputeHash(rows[i])][2])
        ELSE rows[i]]
RECURSIVE PlacesNotIn(_, _, _)
PlacesNotIn(rows, table, i) ==
    IF i > Len(rows) THEN <<>>
    ELSE IF ComputeHash(rows[i]) \in DOMAIN table
         THEN PlacesNotIn(rows, table, i + 1)
         ELSE <<i>> \o PlacesNotIn(rows, table, i + 1)

\* {col: row.get(col, '') for col in self.CSV_COLUMNS}
FormattedRow(row) ==
    [col \in {CSV_COLUMNS[i] : i \in 1..Len(CSV_COLUMNS)} |->
        IF col \in DOMAIN row THEN row[col] ELSE <<>>]

\* _process_topics_with_cache on a whole list of topics
RECURSIVE ProcessAllTopics(_, _, _)
ProcessAllTopics(topic_list, cache_in, rows) ==
    IF topic_list = <<>> THEN rows
    ELSE ProcessAllTopics(Tail(topic_list), cache_in,
                          ProcessTopicRows(Head(topic_list), cache_in, rows))

\* scrape(enrich=True) after phase 4, on a cache that is empty or holds the
\* result of an earlier run for the row of topic "A".
InitEnrich ==
    /\ pc = "done"
    /\ roadmap_name = DefaultRoadmapName
    /\ category = FormatCategoryName(roadmap_name)
    /\ nodes = <<>>
    /\ all_nodes = <<>>
    /\ parent_of = EmptyDict
    /\ topics \in UNION {[1..n -> ResolvedTopics] : n \in 0..MaxTopics}
    /\ edges = <<>>
    /\ IdleBox
    /\ IdleHierarchy
    /\ IdleSweep
    /\ IdleContent
    /\ rpc = "returned"
    /\ topic_i = Len(topics)
    /\ content_cache \in {<<>>, (<<"a", "@", "a">> :> <<"x">>)}
    /\ data_rows = ProcessAllTopics(topics, content_cache, <<>>)
    /\ epc = "check"
    /\ cache \in {<<>>,
                  (<<"B", "|", "|", "A", "|">> :> <<ModelResult.tldr, ModelResult.challenge>>)}
    /\ uncached_rows = <<>>
    /\ batch_num = 0
    /\ fallback_at = 0
    /\ csv_rows = <<>>
    /\ runs = 1
    /\ IdleRetry
    /\ IdleFetch

\* Phase 1 of _enrich_data; it returns when no row is left to enrich.
CheckCache ==
    /\ epc = "check"
    /\ data_rows' = CheckedRows(data_rows, cache)
    /\ uncached_rows' = PlacesNotIn(data_rows, cache, 1)
    /\ epc' = IF uncached_rows' = <<>> THEN "returned" ELSE "batch"
    /\ UNCHANGED <<cache, batch_num, fallback_at, csv_rows, runs>>
    /\ UNCHANGED <<rpc, topic_i, content_cache, edges>>
    /\ UNCHANGED <<gvars, bvars, hvars, svars, cvars, tvars, fvars>>

\* The try block for the next batch, enrich_batch having parsed a response.
BatchEnriched(results) ==
    /\ epc = "batch"
    /\ batch_num < NumBatches(uncached_rows)
    /\ LET batch == Batch(uncached_rows, batch_num + 1)
           after == ApplyEnrichments(data_rows, cache, batch,
                                     EnrichBatch(Len(batch), results), 1)
       IN  /\ results \in BatchResponses(Len(batch))
           /\ data_rows' = after.rows
           /\ cache' = after.cache
    /\ batch_num' = batch_num + 1
    /\ UNCHANGED <<epc, uncached_rows, fallback_at, csv_rows, runs>>
    /\ UNCHANGED <<rpc, topic_i, content_cache, edges>>
    /\ UNCHANGED <<gvars, bvars, hvars, svars, cvars, tvars, fvars>>

\* enrich_batch raises for the next batch: the rows are taken one by one.
BatchFailed ==
    /\ epc = "batch"
    /\ batch_num < NumBatches(uncached_rows)
    /\ epc' = "fallback"
    /\ fallback_at' = 1
    /\ UNCHANGED <<cache, uncached_rows, batch_num, csv_rows, runs, data_rows>>
    /\ UNCHANGED <<rpc, topic_i, content_cache, edges>>
    /\ UNCHANGED <<gvars, bvars, hvars, svars, cvars, tvars, fvars>>

\* One iteration of the fallback loop: enrich_row reads the cache, and
\* without an entry asks the model, which returns a result (generated) or
\* raises.
FallbackRow(generated) ==
    /\ epc = "fallback"
    /\ LET batch == Batch(uncached_rows, batch_num + 1)
           place == batch[fallback_at]
           row_hash == ComputeHash(data_rows[place])
       IN  /\ IF row_hash \in DOMAIN cache
              THEN /\ data_rows' = [data_rows EXCEPT ![place] =
                                       WithEnrichment(@, cache[row_hash][1], cache[row_hash][2])]
                   /\ cache' = cache
              ELSE IF generated
              THEN /\ data_rows' = [data_rows EXCEPT ![place] =
                                       WithEnrichment(@, ModelResult.tldr, ModelResult.challenge)]
                   /\ cache' = CacheSet(cache, row_hash, ModelResult.tldr,
                                        ModelResult.challenge)
              ELSE /\ data_rows' = [data_rows EXCEPT ![place] = WithEnrichment(@, <<>>, "")]
                   /\ cache' = cache
           /\ IF fallback_at < Len(batch)
              THEN fallback_at' = fallback_at + 1 /\ UNCHANGED <<epc, batch_num>>
              ELSE fallback_at' = 0 /\ epc' = "batch" /\ batch_num' = batch_num + 1
    /\ UNCHANGED <<uncached_rows, csv_rows, runs>>
    /\ UNCHANGED <<rpc, topic_i, content_cache, edges>>
    /\ UNCHANGED <<gvars, bvars, hvars, svars, cvars, tvars, fvars>>

\* After the last batch _enrich_data returns the rows.
ReturnEnriched ==
    /\ epc = "batch"
    /\ batch_num = NumBatches(uncached_rows)
    /\ epc' = "returned"
    /\ UNCHANGED <<cache, uncached_rows, batch_num, fallback_at, csv_rows, runs, data_rows>>
    /\ UNCHANGED <<rpc, topic_i, content_cache, edges>>
    /\ UNCHANGED <<gvars, bvars, hvars, svars, cvars, tvars, fvars>>

\* self.exporter.export(data_rows, ...): the rows the DictWriter writes.
Export ==
    /\ epc = "returned"
    /\ epc' = "exported"
    /\ csv_rows' = [i \in 1..Len(data_rows) |-> FormattedRow(data_rows[i])]
    /\ UNCHANGED <<cache, uncached_rows, batch_num, fallback_at, runs, data_rows>>
    /\ UNCHANGED <<rpc, topic_i, content_cache, edges>>
    /\ UNCHANGED <<gvars, bvars, hvars, svars, cvars, tvars, fvars>>

\* A later run of scrape on the same roadmap: the rows are built anew, the
\* cache is the table the earlier run left.
RunAgain ==
    /\ epc = "exported"
    /\ runs < MaxRuns
    /\ runs' = runs + 1
    /\ epc' = "check"
    /\ data_rows' = ProcessAllTopics(topics, content_cache, <<>>)
    /\ uncached_rows' = <<>>
    /\ batch_num' = 0
    /\ fallback_at' = 0
    /\ csv_rows' = <<>>
    /\ UNCHANGED cache
    /\ UNCHANGED <<rpc, topic_i, content_cache, edges>>
    /\ UNCHANGED <<gvars, bvars, hvars, svars, cvars, tvars, fvars>>

NextEnrich ==
    \/ CheckCache
    \/ \E results \in BatchResponses(MaxTopics) : BatchEnriched(results)
    \/ BatchFailed
    \/ \E generated \in BOOLEAN : FallbackRow(generated)
    \/ ReturnEnriched
    \/ Export
    \/ RunAgain

SpecEnrich == InitEnrich /\ [][NextEnrich]_vars

----------------------------------------------------------------------------
(* GeminiEnricher._generate_with_retry *)

\* sub in text
InText(sub, text) ==
    \E i \in 1..(Len(text) - Len(sub) + 1) : SubSeq(text, i, i + Len(sub) - 1) = sub

\* error_msg.lower()
LowerText(text) == [i \in 1..Len(text) |-> ToLower(text[i])]

\* The branches of "except errors.ClientError as e"
ClientRateLimited(error_msg) ==
    \/ InText(<<"4", "2", "9">>, error_msg)
    \/ InText(<<"R", "E", "S", "O", "U", "R", "C", "E", "_",
                "E", "X", "H", "A", "U", "S", "T", "E", "D">>, error_msg)
ClientServerError(error_msg) ==
    \/ InText(<<"5", "0", "0">>, error_msg)
    \/ InText(<<"5", "0", "3">>, error_msg)

\* The branches of "except Exception as e"
OtherRateLimited(error_msg) ==
    \/ InText(<<"4", "2", "9">>, error_msg)
    \/ InText(<<"R", "E", "S", "O", "U", "R", "C", "E", "_",
                "E", "X", "H", "A", "U", "S", "T", "E", "D">>, error_msg)
    \/ InText(<<"q", "u", "o", "t", "a">>, LowerText(error_msg))
OtherServerError(error_msg) ==
    \/ InText(<<"5", "0", "0">>, error_msg)
    \/ InText(<<"5", "0", "3">>, error_msg)
    \/ InText(<<"5", "0", "4">>, error_msg)

\* An error is told a rate-limit or a server error from its class and text.
RateLimited(error) ==
    IF error.client THEN ClientRateLimited(error.msg) ELSE OtherRateLimited(error.msg)
ServerError(error) ==
    IF error.client THEN ClientServerError(error.msg) ELSE OtherServerError(error.msg)

\* The handlers that end in "continue"
Retried(error) == RateLimited(error) \/ ServerError(error)

\* range(max_retries) with one attempt more
InRangeInclusive(i, stop) == i <= stop

\* for attempt in range(max_retries): attempt i is made
InRange(i, stop) == i < stop

\* str(e) of the errors _generate_enrichment raises
ErrorMessages ==
    {<<"4", "2", "9", " ", "R", "E", "S", "O", "U", "R", "C", "E", "_",
       "E", "X", "H", "A", "U", "S", "T", "E", "D">>,
     <<"Q", "u", "o", "t", "a">>,
     <<"5", "0", "0">>, <<"5", "0", "3">>, <<"5", "0", "4">>,
     <<"4", "0", "0">>, <<"I", "n", "v", "a", "l", "i", "d">>}

\* The outcomes of a call of _generate_enrichment: a result, or an error that
\* is an errors.ClientError (client) or another exception.
Outcomes ==
    {[ok |-> TRUE, result |-> ModelResult]}
        \cup {[ok |-> FALSE, client |-> c, msg |-> m] : c \in BOOLEAN, m \in ErrorMessages}

InitRetry ==
    /\ pc = "done"
    /\ roadmap_name = DefaultRoadmapName
    /\ category = FormatCategoryName(roadmap_name)
    /\ nodes = <<>>
    /\ all_nodes = <<>>
    /\ parent_of = EmptyDict
    /\ topics = <<>>
    /\ edges = <<>>
    /\ IdleBox
    /\ IdleHierarchy
    /\ IdleSweep
    /\ IdleContent
    /\ IdleRows
    /\ IdleEnrich
    /\ gpc = "attempt"
    /\ max_retries \in 1..MaxRetries
    /\ attempt = 0
    /\ outcomes = <<>>
    /\ retry_out = [kind |-> "none"]
    /\ IdleFetch

\* One pass of the loop body: the call returns a result, which is returned,
\* or raises an error, which is retried (continue) or raised again.
Attempt(outcome) ==
    /\ gpc = "attempt"
    /\ InRange(attempt, max_retries)
    /\ outcomes' = Append(outcomes, outcome)
    /\ IF outcome.ok
       THEN /\ gpc' = "returned"
            /\ retry_out' = [kind |-> "result", result |-> outcome.result]
            /\ UNCHANGED attempt
       ELSE IF Retried(outcome)
       THEN /\ attempt' = attempt + 1
            /\ UNCHANGED <<gpc, retry_out>>
       ELSE /\ gpc' = "raised"
            /\ retry_out' = [kind |-> "error", error |-> outcome]
            /\ UNCHANGED attempt
    /\ UNCHANGED max_retries
    /\ UNCHANGED <<edges, gvars, bvars, hvars, svars, cvars, rvars, evars, fvars>>

\* The loop is over: raise Exception(f"Failed to generate enrichment after
\* {max_retries} retries")
RaiseFailed ==
    /\ gpc = "attempt"
    /\ ~InRange(attempt, max_retries)
    /\ gpc' = "raised"
    /\ retry_out' = [kind |-> "failed", retries |-> max_retries]
    /\ UNCHANGED <<max_retries, attempt, outcomes>>
    /\ UNCHANGED <<edges, gvars, bvars, hvars, svars, cvars, rvars, evars, fvars>>

NextRetry ==
    \/ \E outcome \in Outcomes : Attempt(outcome)
    \/ RaiseFailed

SpecRetry == InitRetry /\ [][NextRetry]_vars

----------------------------------------------------------------------------
(* fetch_all_parallel, fetch_all_async, _fetch_all_sequential *)

\* filename.endswith('.md')
EndsWithMd(filename) ==
    Len(filename) >= 3 /\ SubSeq(filename, Len(filename) - 2, Len(filename)) = <<".", "m", "d">>

\* key = filename[:-3]
WithoutMd(filename) == SubSeq(filename, 1, Len(filename) - 3)

\* content_cache[key] = content
Store(mapping, key, value) ==
    [k \in DOMAIN mapping \cup {key} |-> IF k = key THEN value ELSE mapping[k]]

\* The names of a directory listing, and the files: download_url is "" for
\* a file the listing gives no URL for.
FileNames == {<<"a", ".", "m", "d">>, <<"b", ".", "m", "d">>, <<"c", ".", "t", "x", "t">>,
              <<"d", "d", ".", "m", "d">>}
ListedFiles == [name : FileNames, download_url : {"", "u"}]

\* What the download of a file gives: the text of the file, which may be
\* empty, or a failure (an HTTP error, a timeout).
DownloadOutcomes == {[ok |-> TRUE, text |-> <<"x">>], [ok |-> TRUE, text |-> <<>>],
                     [ok |-> FALSE, text |-> <<>>]}

\* The two _fetch_single: None without URL and on any failure, else the text.
FetchSingle(file_info, outcome) ==
    IF file_info.download_url = "" THEN [none |-> TRUE, text |-> <<>>]
    ELSE IF outcome.ok THEN [none |-> FALSE, text |-> outcome.text]
    ELSE [none |-> TRUE, text |-> <<>>]

\* "if content:", "elif result and isinstance(result, str)"
Truthy(fetched) == ~fetched.none /\ fetched.text # <<>>

\* md_files, as the places in files_list
MdFiles(listing) == {i \in 1..Len(listing) : EndsWithMd(listing[i].name)}

\* The loop of fetch_all_async over zip(md_files, results) from place i on
RECURSIVE AsyncProcess(_, _, _, _)
AsyncProcess(listing, outcome_of, mapping, i) ==
    IF i > Len(listing) THEN mapping
    ELSE IF i \in MdFiles(listing) /\ Truthy(FetchSingle(listing[i], outcome_of[i]))
    THEN AsyncProcess(listing, outcome_of,
                      Store(mapping, WithoutMd(listing[i].name),
                            FetchSingle(listing[i], outcome_of[i]).text), i + 1)
    ELSE AsyncProcess(listing, outcome_of, mapping, i + 1)

\* A listing of a directory: no name twice.
InitFetch ==
    /\ pc = "done"
    /\ roadmap_name = DefaultRoadmapName
    /\ category = FormatCategoryName(roadmap_name)
    /\ nodes = <<>>
    /\ all_nodes = <<>>
    /\ parent_of = EmptyDict
    /\ topics = <<>>
    /\ edges = <<>>
    /\ IdleBox
    /\ IdleHierarchy
    /\ IdleSweep
    /\ IdleContent
    /\ IdleRows
    /\ IdleEnrich
    /\ IdleRetry
    /\ fpc = "fetch"
    /\ files_list \in {l \in UNION {[1..n -> ListedFiles] : n \in 0..MaxFiles} :
                          \A i, j \in 1..Len(l) : l[i].name = l[j].name => i = j}
    /\ downloads \in [1..Len(files_list) -> DownloadOutcomes]
    /\ seq_at = 0
    /\ seq_cache = <<>>
    /\ async_done = FALSE
    /\ async_cache = <<>>
    /\ pool_pending = MdFiles(files_list)
    /\ pool_cache = <<>>

\* One pass of the loop of _fetch_all_sequential.
SequentialStep ==
    /\ fpc = "fetch"
    /\ seq_at < Len(files_list)
    /\ seq_at' = seq_at + 1
    /\ LET file_info == files_list[seq_at + 1]
           outcome == downloads[seq_at + 1]
       IN  seq_cache' =
               IF ~EndsWithMd(file_info.name) THEN seq_cache
               ELSE IF file_info.download_url = "" THEN seq_cache
               ELSE IF outcome.ok
               THEN Store(seq_cache, WithoutMd(file_info.name), outcome.text)
               ELSE seq_cache
    /\ UNCHANGED <<fpc, files_list, downloads, async_done, async_cache,
                   pool_pending, pool_cache>>
    /\ UNCHANGED <<edges, gvars, bvars, hvars, svars, cvars, rvars, evars, tvars>>

\* fetch_all_async: asyncio.gather returns the results in the order of the
\* tasks, and the loop stores them.
AsyncGather ==
    /\ fpc = "fetch"
    /\ ~async_done
    /\ async_done' = TRUE
    /\ async_cache' = AsyncProcess(files_list, downloads, <<>>, 1)
    /\ UNCHANGED <<fpc, files_list, downloads, seq_at, seq_cache, pool_pending, pool_cache>>
    /\ UNCHANGED <<edges, gvars, bvars, hvars, svars, cvars, rvars, evars, tvars>>

\* One pass of "for future in as_completed(future_to_file)": any of the
\* futures not yet collected is the next to complete.
PoolCollect(future) ==
    /\ fpc = "fetch"
    /\ future \in pool_pending
    /\ pool_pending' = pool_pending \ {future}
    /\ LET file_info == files_list[future]
           fetched == FetchSingle(file_info, downloads[future])
       IN  pool_cache' =
               IF Truthy(fetched)
               THEN Store(pool_cache, WithoutMd(file_info.name), fetched.text)
               ELSE pool_cache
    /\ UNCHANGED <<fpc, files_list, downloads, seq_at, seq_cache, async_done, async_cache>>
    /\ UNCHANGED <<edges, gvars, bvars, hvars, svars, cvars, rvars, evars, tvars>>

\* The three strategies have returned their content_cache.
FetchReturned ==
    /\ fpc = "fetch"
    /\ seq_at = Len(files_list)
    /\ async_done
    /\ pool_pending = {}
    /\ fpc' = "done"
    /\ UNCHANGED <<files_list, downloads, seq_at, seq_cache, async_done, async_cache,
                   pool_pending, pool_cache>>
    /\ UNCHANGED <<edges, gvars, bvars, hvars, svars, cvars, rvars, evars, tvars>>

NextFetch ==
    \/ SequentialStep
    \/ AsyncGather
    \/ \E future \in 1..MaxFiles : PoolCollect(future)
    \/ FetchReturned

SpecFetch == InitFetch /\ [][NextFetch]_vars

----------------------------------------------------------------------------
(* The upward walk, stated on the lookup itself *)

\* The first k parents of id in parent_of, nearest first; NoId from where the
\* chain has ended.
RECURSIVE ParentsFrom(_, _)
ParentsFrom(id, k) ==
    IF k = 0 THEN <<>>
    ELSE LET parent == IF id # NoId /\ id \in DOMAIN parent_of THEN parent_of[id] ELSE NoId
         IN  <<parent>> \o ParentsFrom(parent, k - 1)

\* The k-th parent of id (id itself for k = 0), for k up to ten.
ParentAt(id, k) == IF k = 0 THEN id ELSE ParentsFrom(id, 10)[k]

\* The node all_nodes holds for id (the last one of that id), when it holds one.
IsKnown(id) == \E i \in 1..Len(all_nodes) : all_nodes[i].id = id
KnownNode(id) ==
    all_nodes[CHOOSE i \in 1..Len(all_nodes) :
                  /\ all_nodes[i].id = id
                  /\ \A j \in (i + 1)..Len(all_nodes) : all_nodes[j].id # id]

\* The ancestors a walk of at most ten steps meets: the known nodes among the
\* first ten parents of id, nearest first.
RawAncestors(id) ==
    LET known == SelectSeq(ParentsFrom(id, 10), LAMBDA p : p # NoId /\ IsKnown(p))
    IN  [i \in 1..Len(known) |-> KnownNode(known[i])]

\* The meaningful ones among them.
IsMeaningful(node) == node.type = "label" \/ node.type = "topic" \/ node.type = "paragraph"
MeaningfulAncestors(id) == SelectSeq(RawAncestors(id), IsMeaningful)

----------------------------------------------------------------------------
(* C1 *)

\* What a record and a raw node have in common.
RecordKey(t) == <<t.id, t.type, t.label, t.position.x, t.position.y>>
RawKey(n) ==
    <<n.id, n.type, n.label,
      IF IsNumeric(n.position.x) THEN FloatOf[n.position.x] ELSE -1,
      IF IsNumeric(n.position.y) THEN FloatOf[n.position.y] ELSE -1>>
Keys(seq, Key(_)) == [i \in 1..Len(seq) |-> Key(seq[i])]

IsTopicKind(n) == n.type = "topic" \/ n.type = "subtopic"
HasPositionAndLabel(n) ==
    n.position.x # Absent /\ n.position.y # Absent /\ n.label # Empty
IsUsableTopic(n) == IsTopicKind(n) /\ HasPositionAndLabel(n)

HasNonNumber(n) ==
    \E v \in {n.position.x, n.position.y, n.width, n.height} :
        v # Absent /\ v \notin {"0", "10", "50"}

----------------------------------------------------------------------------
(* C2 *)

\* C2: whatever the edges (cyclic, overwritten, dangling), every record has a
\* non-empty category when the roadmap name is not empty, and a non-empty
\* subcategory only when the walk met at least two meaningful ancestors.
C2_CategoryNeverEmpty ==
    /\ \A name \in RoadmapNames : name # Empty => FormatCategoryName(name) # Empty
    /\ pc = "done" =>
          \A i \in 1..Len(topics) :
              /\ roadmap_name # Empty => topics[i].category # Empty
              /\ topics[i].subcategory # Empty =>
                    Len(MeaningfulAncestors(topics[i].id)) >= 2

\* A record with a subcategory whose walk ran around a cycle, beside a record
\* whose parent is an id no node has.
C2_Witness ==
    /\ pc = "done"
    /\ \E i \in 1..Len(topics) :
          /\ topics[i].subcategory # Empty
          /\ ParentAt(topics[i].id, 10) # NoId
    /\ \E i \in 1..Len(topics) :
          /\ ParentAt(topics[i].id, 1) # NoId
          /\ ~IsKnown(ParentAt(topics[i].id, 1))

----------------------------------------------------------------------------
(* C4 *)

\* C4: with two or more meaningful ancestors, the category is the label of the
\* furthest one and the subcategory the label of the nearest one.
C4_FurthestAndNearest ==
    pc = "done" =>
        \A i \in 1..Len(topics) :
            LET m == MeaningfulAncestors(topics[i].id) IN
            Len(m) >= 2 =>
                /\ topics[i].category = m[Len(m)].label
                /\ topics[i].subcategory = m[1].label

\* A record with at least three meaningful ancestors, one in between carrying
\* a label that is neither the category nor the subcategory.
C4_Witness ==
    /\ pc = "done"
    /\ \E i \in 1..Len(topics) :
          LET m == MeaningfulAncestors(topics[i].id) IN
          /\ Len(m) >= 3
          /\ \E j \in 2..(Len(m) - 1) :
                m[j].label # topics[i].category /\ m[j].label # topics[i].subcategory

----------------------------------------------------------------------------
(* C5 *)

\* C5: when the walk collects at least one ancestor, one meaningful ancestor
\* gives (its label, ""), and no meaningful ancestor gives (default, "").
C5_OneOrNoMeaningfulAncestor ==
    pc = "done" =>
        \A i \in 1..Len(topics) :
            LET m == MeaningfulAncestors(topics[i].id) IN
            Len(RawAncestors(topics[i].id)) >= 1 =>
                /\ Len(m) = 1 =>
                      topics[i].category = m[1].label /\ topics[i].subcategory = Empty
                /\ Len(m) = 0 =>
                      /\ topics[i].category = FormatCategoryName(roadmap_name)
                      /\ topics[i].subcategory = Empty

\* One record with a single meaningful ancestor beside one whose ancestors are
\* all of other kinds.
C5_Witness ==
    /\ pc = "done"
    /\ \E i \in 1..Len(topics) :
          /\ Len(MeaningfulAncestors(topics[i].id)) = 1
          /\ topics[i].category # FormatCategoryName(roadmap_name)
    /\ \E i \in 1..Len(topics) :
          /\ Len(RawAncestors(topics[i].id)) >= 1
          /\ Len(MeaningfulAncestors(topics[i].id)) = 0
          /\ topics[i].category # topics[i].label

----------------------------------------------------------------------------
(* C3 *)

\* No edge read names id, as source or as target.
IsIsolated(id) ==
    \A k \in 1..Len(edges) : edges[k].source # id /\ edges[k].target # id

\* C3, as claimed (the code does otherwise): a topic node that no edge names
\* gets the default category, the formatted roadmap name, and no subcategory.
C3_IsolatedTopicGetsDefault ==
    pc = "done" =>
        \A i \in 1..Len(topics) :
            IsIsolated(topics[i].id) =>
                /\ topics[i].category = FormatCategoryName(roadmap_name)
                /\ topics[i].subcategory = Empty

----------------------------------------------------------------------------
(* C6 *)

IsValidEdge(e) == e.source # NoId /\ e.target # NoId
ValidEdgesTo(id) == {k \in 1..Len(edges) : IsValidEdge(edges[k]) /\ edges[k].target = id}
LastEdgeTo(id) == CHOOSE k \in ValidEdgesTo(id) : \A j \in ValidEdgesTo(id) : j <= k

\* C6: the lookup has an entry for exactly the targets of the edges that have
\* both a source and a target, and maps each to the source of the last such
\* edge of the input; an edge without source or target leaves no trace.
C6_LastWriteWins ==
    /\ DOMAIN parent_of = {id \in Ids \cup {NoId} : ValidEdgesTo(id) # {}}
    /\ \A id \in DOMAIN parent_of : parent_of[id] = edges[LastEdgeTo(id)].source

\* Two edges with the same target and different sources have been read, and
\* an edge that has a source but no target.
C6_Witness ==
    /\ \E j \in 1..Len(edges), k \in 1..Len(edges) :
          /\ j < k
          /\ IsValidEdge(edges[j]) /\ IsValidEdge(edges[k])
          /\ edges[j].target = edges[k].target
          /\ edges[j].source # edges[k].source
          /\ parent_of[edges[k].target] = edges[k].source
    /\ \E k \in 1..Len(edges) : edges[k].source # NoId /\ edges[k].target = NoId

----------------------------------------------------------------------------
(* C7 *)

\* The walk the code makes from id in the current state.
WalkFrom(id) == FindAncestorChain(id, parent_of, NodesById(all_nodes))

\* C7: once the lookup is built, from any node the walk makes at most 10 lookups and returns at most 10
\* ancestors, whatever cycles the lookup has; it runs over exactly the leading
\* parents that exist, so it stops before the tenth step exactly where the
\* current node has no parent.
C7_WalkBounded ==
    pc = "done" =>
        \A id \in Ids :
            LET w == WalkFrom(id)
                parents == ParentsFrom(id, 10)
            IN
            /\ w.lookups <= 10
            /\ Len(w.ancestors) <= 10
            /\ \A k \in 1..10 : k <= w.steps <=> parents[k] # NoId
            /\ w.current = IF w.steps = 0 THEN id ELSE parents[w.steps]
            /\ w.steps < 10 <=> w.broke
            /\ w.broke => w.current \notin DOMAIN parent_of

\* A node that is its own parent is walked for ten steps and ten ancestors,
\* and another walk stops after one step at a node without parent.
C7_Witness ==
    /\ pc = "done"
    /\ \E id \in Ids :
          /\ GetParent(parent_of, id) = id
          /\ WalkFrom(id).steps = 10
          /\ Len(WalkFrom(id).ancestors) = 10
    /\ \E id \in Ids : WalkFrom(id).steps = 1 /\ WalkFrom(id).broke

----------------------------------------------------------------------------
(* C8 *)

\* Of the parent ids of a walk: a node of a meaningful kind, an id that no node
\* has, a node of a layout-only kind.
IsMeaningfulId(p) == p # NoId /\ IsKnown(p) /\ IsMeaningful(KnownNode(p))
IsUnknownId(p) == p # NoId /\ ~IsKnown(p)
IsLayoutId(p) == p # NoId /\ IsKnown(p) /\ ~IsMeaningful(KnownNode(p))

\* C8: a node that is not meaningful does not stop the walk: the meaningful
\* ancestors the code classifies by are all the meaningful nodes among the
\* first ten parents, so one that lies above a layout node or an unknown id
\* is collected, and the category is the label of the furthest of them.
C8_SkippedNotStopped ==
    pc = "done" =>
        \A i \in 1..Len(topics) :
            LET id == topics[i].id
                parents == ParentsFrom(id, 10)
                m == Meaningful(WalkFrom(id).ancestors)
                at == {k \in 1..10 : IsMeaningfulId(parents[k])}
            IN  /\ m = MeaningfulAncestors(id)
                /\ Len(m) = Cardinality(at)
                /\ at # {} =>
                      LET top == CHOOSE k \in at : \A j \in at : j <= k IN
                      topics[i].category = KnownNode(parents[top]).label

\* A record whose category is the label of an ancestor that lies above both a
\* layout node and an id that no node has.
C8_Witness ==
    /\ pc = "done"
    /\ \E i \in 1..Len(topics) :
          LET parents == ParentsFrom(topics[i].id, 10) IN
          \E k \in 1..10 :
              /\ IsMeaningfulId(parents[k])
              /\ \A j \in (k + 1)..10 : ~IsMeaningfulId(parents[j])
              /\ \E j \in 1..(k - 1) : IsUnknownId(parents[j])
              /\ \E j \in 1..(k - 1) : IsLayoutId(parents[j])
              /\ topics[i].category = KnownNode(parents[k]).label
              /\ topics[i].category # FormatCategoryName(roadmap_name)

----------------------------------------------------------------------------
(* C9 *)

\* C9, as claimed (the code does otherwise): no single malformed node makes
\* extract_topics raise; the node is skipped and the pass goes on.
C9_MalformedNodeNeverAborts == pc # "raised"

----------------------------------------------------------------------------
(* C10 *)

\* How far each edge of box_other lies outside the edge of box_self it faces:
\* left, top, right, bottom.
Outside ==
    <<box_self.x - box_other.x,
      box_self.y - box_other.y,
      (box_other.x + box_other.width) - (box_self.x + box_self.width),
      (box_other.y + box_other.height) - (box_self.y + box_self.height)>>

\* C10: with the default tolerance, a box with one edge exactly 3 units
\* outside and the other edges inside is contained, and a box with an edge
\* 4 units outside is not.
C10_ToleranceBoundary ==
    box_result # <<>> =>
        /\ \A e \in 1..4 :
              (Outside[e] = 3 /\ \A f \in 1..4 \ {e} : Outside[f] <= 0)
                  => box_result = <<TRUE>>
        /\ \A e \in 1..4 : Outside[e] = 4 => box_result = <<FALSE>>

\* contains() returned true for a box whose right edge is 3 units outside and
\* whose other edges are inside.
C10_Witness ==
    /\ box_result = <<TRUE>>
    /\ Outside[3] = 3
    /\ Outside[1] <= 0 /\ Outside[2] <= 0 /\ Outside[4] <= 0

----------------------------------------------------------------------------
(* The geometry of the list infer_hierarchy was given, stated on nodes_list *)

\* The places of the containers and of the leaves in nodes_list.
ContainerIdx == {i \in 1..Len(nodes_list) : nodes_list[i].node_type = "container"}
LeafIdx == {i \in 1..Len(nodes_list) : nodes_list[i].node_type = "leaf"}

\* The pair a node was given.
PairOf(i) == <<nodes_list[i].category, nodes_list[i].subcategory>>

\* Node i contains node k within the tolerance.
Encloses(i, k) ==
    LET a == nodes_list[i].bbox
        b == nodes_list[k].bbox
    IN  /\ a.x - F(3) <= b.x
        /\ a.y - F(3) <= b.y
        /\ a.x + a.width + F(3) >= b.x + b.width
        /\ a.y + a.height + F(3) >= b.y + b.height

\* Every edge of node k lies more than the tolerance inside node i.
ContainsByMore(i, k) ==
    LET a == nodes_list[i].bbox
        b == nodes_list[k].bbox
    IN  /\ a.x + F(3) < b.x
        /\ a.y + F(3) < b.y
        /\ a.x + a.width - F(3) > b.x + b.width
        /\ a.y + a.height - F(3) > b.y + b.height

\* The other containers that contain node k, and the smallest of a set of nodes.
EnclosingOf(k) == {i \in ContainerIdx \ {k} : Encloses(i, k)}
AreaOf(i) == nodes_list[i].bbox.width * nodes_list[i].bbox.height
SmallestOf(S) == {i \in S : \A j \in S : AreaOf(i) <= AreaOf(j)}

\* The containers the fallback looks at for leaf l: top above the leaf's top,
\* x-range meeting the leaf's.
HeadersOf(l) ==
    {c \in ContainerIdx :
        /\ nodes_list[c].bbox.y < nodes_list[l].bbox.y
        /\ nodes_list[c].bbox.x <= nodes_list[l].bbox.x + nodes_list[l].bbox.width
        /\ nodes_list[l].bbox.x <= nodes_list[c].bbox.x + nodes_list[c].bbox.width}

\* From the bottom edge of container c down to the top edge of leaf l:
\* negative when the bottom edge of c lies below the top edge of l.
GapTo(l, c) ==
    nodes_list[l].bbox.y - (nodes_list[c].bbox.y + nodes_list[c].bbox.height)
Abs(v) == IF v < 0 THEN 0 - v ELSE v
\* The vertical distance between these two edges, and the horizontal distance
\* between the left edges of c and l.
VerticalDistance(l, c) == Abs(GapTo(l, c))
HorizontalDistance(l, c) == Abs(nodes_list[c].bbox.x - nodes_list[l].bbox.x)
\* Twice the total distance: vertical + 0.5 x horizontal.
TotalDistance2(l, c) == 2 * VerticalDistance(l, c) + HorizontalDistance(l, c)

----------------------------------------------------------------------------
(* C11 *)

\* C11, as claimed: when container a contains container b by more than the
\* tolerance and both contain leaf l, the leaf has the pair of a smallest
\* container that contains it, and that is the pair of b.
C11_LeafGetsPairOfInner ==
    hpc = "inferred" =>
        \A a \in ContainerIdx, b \in ContainerIdx, l \in LeafIdx :
            ContainsByMore(a, b) /\ Encloses(a, l) /\ Encloses(b, l) =>
                /\ \E s \in SmallestOf(EnclosingOf(l)) : PairOf(l) = PairOf(s)
                /\ PairOf(l) = PairOf(b)

\* C11, amended: when container a contains container b by more than the
\* tolerance and both contain leaf l, the leaf has the pair of a smallest
\* container that contains it, which is never a; it is the pair of b when b
\* alone is the smallest container that contains the leaf.
C11_LeafGetsPairOfSmallest ==
    hpc = "inferred" =>
        \A a \in ContainerIdx, b \in ContainerIdx, l \in LeafIdx :
            ContainsByMore(a, b) /\ Encloses(a, l) /\ Encloses(b, l) =>
                /\ \E s \in SmallestOf(EnclosingOf(l)) : s # a /\ PairOf(l) = PairOf(s)
                /\ SmallestOf(EnclosingOf(l)) = {b} => PairOf(l) = PairOf(b)

\* Three containers, each more than the tolerance inside the one before, and
\* a leaf in all three: the leaf has the pair of the innermost one, which is
\* not the pair of the one in the middle.
C11_Witness ==
    /\ hpc = "inferred"
    /\ \E a \in ContainerIdx, b \in ContainerIdx, c \in ContainerIdx, l \in LeafIdx :
          /\ ContainsByMore(a, b) /\ ContainsByMore(b, c)
          /\ Encloses(a, l) /\ Encloses(b, l) /\ Encloses(c, l)
          /\ PairOf(l) = PairOf(c)
          /\ PairOf(l) # PairOf(b)
          /\ PairOf(l) # PairOf(a)

----------------------------------------------------------------------------
(* C12 *)

\* C12: after infer_hierarchy, a container that another container contains
\* has the text of a smallest such container as category and its own text as
\* subcategory; a container that no other container contains has its own text
\* as category and no subcategory.
C12_ContainerPairs ==
    hpc = "inferred" =>
        \A k \in ContainerIdx :
            IF EnclosingOf(k) # {}
            THEN /\ \E p \in SmallestOf(EnclosingOf(k)) :
                        nodes_list[k].category = nodes_list[p].text
                 /\ nodes_list[k].subcategory = nodes_list[k].text
            ELSE /\ nodes_list[k].category = nodes_list[k].text
                 /\ nodes_list[k].subcategory = ""

\* A container that two others contain has the text of the smaller one, which
\* is not the text of the larger one; the larger one is contained by none.
C12_Witness ==
    /\ hpc = "inferred"
    /\ \E k \in ContainerIdx, p \in ContainerIdx, q \in ContainerIdx :
          /\ EnclosingOf(k) = {p, q}
          /\ AreaOf(p) < AreaOf(q)
          /\ nodes_list[p].text # nodes_list[q].text
          /\ PairOf(k) = <<nodes_list[p].text, nodes_list[k].text>>
          /\ EnclosingOf(q) = {}
          /\ PairOf(q) = <<nodes_list[q].text, "">>

----------------------------------------------------------------------------
(* C13 *)

\* C13, as claimed: a leaf that no container contains has the pair of a
\* container, among those with their top above the leaf's top and their
\* x-range meeting the leaf's, whose bottom edge is at the least vertical
\* distance from the leaf's top edge; it has ("Uncategorized", "") when there
\* is no such container.
C13_NearestHeaderByDistance ==
    hpc = "inferred" =>
        \A l \in LeafIdx :
            EnclosingOf(l) = {} =>
                IF HeadersOf(l) = {}
                THEN PairOf(l) = <<"Uncategorized", "">>
                ELSE \E c \in HeadersOf(l) :
                        /\ \A d \in HeadersOf(l) :
                               VerticalDistance(l, c) <= VerticalDistance(l, d)
                        /\ PairOf(l) = PairOf(c)

----------------------------------------------------------------------------
(* C14 *)

\* The headers of leaf l that share the least vertical distance to it.
NearestHeaders(l) ==
    {c \in HeadersOf(l) :
        \A d \in HeadersOf(l) : VerticalDistance(l, c) <= VerticalDistance(l, d)}

\* C14, as claimed: when two or more headers share the least vertical distance
\* to a leaf, the leaf has the pair of the one of them with the least total
\* distance (vertical + 0.5 x horizontal).
C14_TieByTotalDistance ==
    hpc = "inferred" =>
        \A l \in LeafIdx :
            EnclosingOf(l) = {} /\ Cardinality(NearestHeaders(l)) >= 2 =>
                \E c \in NearestHeaders(l) :
                    /\ \A d \in NearestHeaders(l) :
                           TotalDistance2(l, c) <= TotalDistance2(l, d)
                    /\ PairOf(l) = PairOf(c)

\* The headers of leaf l that the sort puts first: those with the least gap.
FirstHeaders(l) ==
    {c \in HeadersOf(l) : \A d \in HeadersOf(l) : GapTo(l, c) <= GapTo(l, d)}

\* C14, amended: when two or more headers share the least gap to a leaf, the
\* leaf has the pair of the one of them that comes first in the list of
\* nodes, whatever their horizontal distances to the leaf.
C14_TieByListOrder ==
    hpc = "inferred" =>
        \A l \in LeafIdx :
            EnclosingOf(l) = {} /\ Cardinality(FirstHeaders(l)) >= 2 =>
                \E c \in FirstHeaders(l) :
                    /\ \A d \in FirstHeaders(l) : c <= d
                    /\ PairOf(l) = PairOf(c)

\* Two headers share the least gap to a leaf; the leaf has the pair of the
\* first in the list, and the other, whose pair differs, has the smaller total
\* distance.
C14_Witness ==
    /\ hpc = "inferred"
    /\ \E l \in LeafIdx, c \in ContainerIdx, d \in ContainerIdx :
          /\ EnclosingOf(l) = {}
          /\ FirstHeaders(l) = {c, d}
          /\ c < d
          /\ TotalDistance2(l, d) < TotalDistance2(l, c)
          /\ PairOf(l) = PairOf(c)
          /\ PairOf(l) # PairOf(d)

----------------------------------------------------------------------------
(* C15 *)

\* The list is the element "Tools" with box (0, 0, 200, 40) and the element
\* "Git" with box (20, 100, 80, 30).
IsToolsAndGit ==
    /\ Len(nodes_list) = 2
    /\ nodes_list[1].text = "Tools"
    /\ nodes_list[1].bbox = [x |-> F(0), y |-> F(0), width |-> F(200), height |-> F(40)]
    /\ nodes_list[2].text = "Git"
    /\ nodes_list[2].bbox = [x |-> F(20), y |-> F(100), width |-> F(80), height |-> F(30)]

\* C15, as claimed: for that list, "Git" is resolved to category "Tools" and
\* no subcategory.
C15_GitUnderTools ==
    hpc = "inferred" /\ IsToolsAndGit => PairOf(2) = <<"Tools", "">>

\* C15, amended: for that list, "Tools" is 200 wide and 40 high, under both
\* thresholds, so both nodes are leaves, and "Git" is resolved to category
\* "Uncategorized" and no subcategory.
C15_GitUncategorized ==
    hpc = "inferred" /\ IsToolsAndGit =>
        /\ nodes_list[1].node_type = "leaf"
        /\ nodes_list[2].node_type = "leaf"
        /\ PairOf(2) = <<"Uncategorized", "">>

\* infer_hierarchy has run on that list.
C15_Witness == hpc = "inferred" /\ IsToolsAndGit

----------------------------------------------------------------------------
(* C16 *)

\* C16: the offsets the collector visits are the first of scroll_positions,
\* and once the sweep is over they start at 0, grow strictly, by at most the
\* viewport height at a time, and end at the page height.
C16_OffsetsReachBottom ==
    /\ Len(visited) <= Len(scroll_positions)
    /\ \A i \in 1..Len(visited) : visited[i] = scroll_positions[i]
    /\ spc = "returned" =>
          /\ Len(visited) >= 1
          /\ visited[1] = 0
          /\ \A i \in 1..(Len(visited) - 1) :
                 /\ visited[i] < visited[i + 1]
                 /\ visited[i + 1] - visited[i] <= viewport_height
          /\ visited[Len(visited)] = page_height

\* A sweep is over whose page height is larger than the viewport height and no
\* multiple of it: the last step is a partial one.
C16_Witness ==
    /\ spc = "returned"
    /\ page_height > viewport_height
    /\ page_height % viewport_height # 0
    /\ Len(visited) >= 3
    /\ visited[Len(visited)] - visited[Len(visited) - 1] < viewport_height

----------------------------------------------------------------------------
(* C17 *)

\* The text of a node and its box, every number rounded.
RoundedKey(n) ==
    <<n.text, Round(n.bbox.x), Round(n.bbox.y), Round(n.bbox.width), Round(n.bbox.height)>>

\* C17, as claimed: the collector takes two nodes for the same node exactly
\* when their texts and rounded boxes are equal: the set never holds two
\* nodes with the same text and rounded box, every node extracted has a node
\* with its text and rounded box in the set, and the list returned has one
\* entry for each.
C17_SameNodeIffSameRoundedKey ==
    spc # "start" =>
        /\ \A a \in nodes_set, b \in nodes_set : RoundedKey(a) = RoundedKey(b) => a = b
        /\ \A i \in 1..Len(nodes_at_position) :
               \E m \in nodes_set : RoundedKey(m) = RoundedKey(nodes_at_position[i])
        /\ spc = "returned" =>
               {RoundedKey(nodes_list[i]) : i \in 1..Len(nodes_list)}
                   = {RoundedKey(m) : m \in nodes_set}

----------------------------------------------------------------------------
(* C18 *)

\* C18, as claimed: between two sweep steps the set holds no two equal nodes
\* (nodes with the same text and rounded box), it holds every node extracted
\* so far, a step removes or replaces no node, and the list returned holds
\* all of them.
C18_PartialResultConsistent ==
    [][/\ \A a \in nodes_set', b \in nodes_set' : RoundedKey(a) = RoundedKey(b) => a = b
       /\ nodes_set \subseteq nodes_set'
       /\ \A i \in 1..Len(nodes_at_position') :
              \E m \in nodes_set' : RoundedKey(m) = RoundedKey(nodes_at_position'[i])
       /\ spc' = "returned" =>
              nodes_set \subseteq {nodes_list'[i] : i \in 1..Len(nodes_list')}]_vars

----------------------------------------------------------------------------
(* C19 *)

\* The lines of a document that are not blank and do not start with "#",
\* without the spaces at their ends.
TextLines(doc) ==
    LET lines == SplitLines(doc)
        stripped == [i \in 1..Len(lines) |-> Strip(lines[i])]
    IN  SelectSeq(stripped, LAMBDA l : l # <<>> /\ l[1] # "#")

\* A line with every link [text](url) replaced by its text.
RECURSIVE WithoutLinkMarkup(_)
WithoutLinkMarkup(l) ==
    IF l = <<>> THEN <<>>
    ELSE IF LinkAt(l, 1).ok
         THEN LinkAt(l, 1).text \o WithoutLinkMarkup(SubSeq(l, LinkAt(l, 1).stop + 1, Len(l)))
         ELSE <<l[1]>> \o WithoutLinkMarkup(Tail(l))

\* The description the example is said to have.
ExampleDescription ==
    <<"L", "e", "a", "r", "n", " ", "G", "i", "t", " ", "b", "a", "s", "i",
      "c", "s", ".", " ", "S", "e", "e", " ", "a", "l", "s", "o", " ", "h",
      "t", "t", "p", "s", ":", "/", "/", "e", "x", "a", "m", "p", "l", "e",
      ".", "c", "o", "m", "/", "g", "u", "i", "d", "e">>

\* C19, as claimed: the description is the lines of the document that are not
\* blank and do not start with "#", every link replaced by its text, joined
\* by single spaces; for the document of the example it is "Learn Git basics.
\* See also https://example.com/guide".
C19_DescriptionWithoutLinkMarkup ==
    parsed # <<>> =>
        /\ parsed[1].description =
               Join([i \in 1..Len(TextLines(content)) |->
                         WithoutLinkMarkup(TextLines(content)[i])], <<" ">>)
        /\ content = ExampleDocument => parsed[1].description = ExampleDescription

----------------------------------------------------------------------------
(* C20 *)

\* The URLs of a document with the places where they appear: the targets of
\* its links, and its bare URLs.
UrlMatches(doc) ==
    LET links == FindallLinks(doc, 1)
        bare == FindallBare(doc, 1)
    IN  {[url |-> links[i].url, at |-> links[i].at] : i \in 1..Len(links)}
        \cup {[url |-> bare[i].url, at |-> bare[i].at] : i \in 1..Len(bare)}
UrlsOf(doc) == {m.url : m \in UrlMatches(doc)}
FirstAt(doc, url) ==
    CHOOSE p \in {m.at : m \in {k \in UrlMatches(doc) : k.url = url}} :
        \A m \in UrlMatches(doc) : m.url = url => p <= m.at

\* C20, as claimed: resources is the URLs of the document, each once, in the
\* order of their first appearance in the document, whichever the form of
\* that appearance, joined by "|".
C20_UrlsInOrderOfAppearance ==
    parsed # <<>> =>
        \E list \in [1..Cardinality(UrlsOf(content)) -> UrlsOf(content)] :
            /\ \A i \in 1..Len(list), j \in 1..Len(list) :
                   i < j => /\ list[i] # list[j]
                            /\ FirstAt(content, list[i]) <= FirstAt(content, list[j])
            /\ parsed[1].resources = Join(list, <<"|">>)

\* The values of a list, each once, in the order of their first occurrence.
FirstOccurrences(list) ==
    LET firsts == {i \in 1..Len(list) : \A j \in 1..(i - 1) : list[j] # list[i]}
        nth(k) == CHOOSE i \in firsts : Cardinality({j \in firsts : j <= i}) = k
    IN  [k \in 1..Cardinality(firsts) |-> list[nth(k)]]

\* The targets of the links of a document that start with "http", and its
\* bare URLs that are the target of no such link, both in document order.
LinkTargets(doc) ==
    LET links == FindallLinks(doc, 1)
        http == SelectSeq(links, LAMBDA m : StartsWith(m.url, Http))
    IN  [i \in 1..Len(http) |-> http[i].url]
BareOnly(doc) ==
    LET bare == FindallBare(doc, 1)
        only == SelectSeq(bare, LAMBDA m :
                    \A i \in 1..Len(LinkTargets(doc)) : LinkTargets(doc)[i] # m.url)
    IN  [i \in 1..Len(only) |-> only[i].url]

\* C20, amended: resources is the link targets that start with "http", each
\* once, in the order of their first appearance, and after them the bare URLs
\* that are no link target, each once, in the order of their first
\* appearance, joined by "|".
C20_LinkTargetsThenBareUrls ==
    parsed # <<>> =>
        parsed[1].resources =
            Join(FirstOccurrences(LinkTargets(content))
                     \o FirstOccurrences(BareOnly(content)), <<"|">>)

\* A document in which a bare URL stands before a link to another URL, and
\* stands nowhere as the target of a link: resources has the link's target
\* first.
C20_Witness ==
    /\ parsed # <<>>
    /\ \E b \in 1..Len(FindallBare(content, 1)), l \in 1..Len(FindallLinks(content, 1)) :
          LET bare == FindallBare(content, 1)[b]
              link == FindallLinks(content, 1)[l]
          IN  /\ bare.at < link.at
              /\ StartsWith(link.url, Http)
              /\ bare.url # link.url
              /\ UrlsOf(content) = {bare.url, link.url}
              /\ parsed[1].resources = link.url \o <<"|">> \o bare.url

----------------------------------------------------------------------------
(* C21 *)

\* The entries of a string joined by c; the empty string has none.
RECURSIVE SplitOn(_, _)
SplitOn(s, c) ==
    IF s = <<>> THEN <<>>
    ELSE LET cut == IndexFrom(s, c, 1) IN
         IF cut = 0 THEN <<s>>
         ELSE <<SubSeq(s, 1, cut - 1)>> \o
              (IF cut = Len(s) THEN <<<<>>>> ELSE SplitOn(SubSeq(s, cut + 1, Len(s)), c))

\* C21: every call of parse_content on a document returns the same result;
\* the entries of its resources are URLs of the document and no two of them
\* are equal, also when a URL is the target of a link and stands bare as
\* well; the empty document gives ("", "").
C21_SameResourcesNoUrlTwice ==
    /\ \A i \in 1..Len(parsed), j \in 1..Len(parsed) : parsed[i] = parsed[j]
    /\ \A i \in 1..Len(parsed) :
           LET entries == SplitOn(parsed[i].resources, "|")
           IN  /\ \A k \in 1..Len(entries) : entries[k] \in UrlsOf(content)
               /\ \A k \in 1..Len(entries), l \in 1..Len(entries) :
                      entries[k] = entries[l] => k = l
               /\ content = <<>> => parsed[i] = [description |-> <<>>, resources |-> <<>>]

\* A document parsed twice in which one URL is the target of a link and, at
\* another place, stands bare, and another URL stands as well.
C21_Witness ==
    /\ Len(parsed) = 2
    /\ \E l \in 1..Len(FindallLinks(content, 1)), b \in 1..Len(FindallBare(content, 1)) :
          /\ FindallLinks(content, 1)[l].url = FindallBare(content, 1)[b].url
          /\ FindallLinks(content, 1)[l].at # FindallBare(content, 1)[b].at
    /\ Len(SplitOn(parsed[2].resources, "|")) = 2

----------------------------------------------------------------------------
(* C25 *)

----------------------------------------------------------------------------
(* C26 *)

\* The ids of the chain the walk returns for id, nearest first.
ChainIds(id) ==
    [k \in 1..Len(WalkFrom(id).ancestors) |-> WalkFrom(id).ancestors[k].id]

\* The chain holds neither the node it starts from nor a node twice.
ChainIsSimple(id) ==
    /\ \A k \in 1..Len(ChainIds(id)) : ChainIds(id)[k] # id
    /\ \A k \in 1..Len(ChainIds(id)), l \in 1..Len(ChainIds(id)) :
           ChainIds(id)[k] = ChainIds(id)[l] => k = l

\* The nodes of the list other than the one of id that have the label.
OthersLabelled(id, label) ==
    {n \in Ids \ {id} : IsKnown(n) /\ KnownNode(n).label = label}

\* The category of a record is the label of a node other than its topic, and
\* so is a subcategory that is set, of yet another node.
FromOtherNodes(t) ==
    /\ OthersLabelled(t.id, t.category) # {}
    /\ t.subcategory # Empty =>
           \E n \in OthersLabelled(t.id, t.category),
              m \in OthersLabelled(t.id, t.subcategory) : n # m

\* C26, as claimed: for every edge list the chain of a topic holds neither
\* the topic nor a node twice, and the category and subcategory of every
\* topic are labels of nodes other than the topic, of two nodes when both
\* are set.
C26_ChainAlwaysSimple ==
    pc = "done" =>
        \A i \in 1..Len(topics) :
            ChainIsSimple(topics[i].id) /\ FromOtherNodes(topics[i])

\* No parent of id, up to the tenth, is id or an earlier parent of id.
NoCycleFrom(id) ==
    \A j \in 0..10, k \in 0..10 :
        j < k /\ ParentAt(id, k) # NoId => ParentAt(id, j) # ParentAt(id, k)

\* C26, amended: where the parents of a topic, up to the tenth, form no
\* cycle, its chain holds neither the topic nor a node twice, and where the
\* chain has a meaningful ancestor the category and subcategory are labels of
\* nodes other than the topic, of two nodes when both are set.
C26_ChainSimpleWithoutCycle ==
    pc = "done" =>
        \A i \in 1..Len(topics) :
            NoCycleFrom(topics[i].id) =>
                /\ ChainIsSimple(topics[i].id)
                /\ Meaningful(WalkFrom(topics[i].id).ancestors) # <<>> =>
                       FromOtherNodes(topics[i])

\* A topic with two meaningful ancestors and no cycle has been resolved: its
\* category and subcategory are the labels of the two.
C26_Witness ==
    /\ pc = "done"
    /\ \E i \in 1..Len(topics) :
          /\ NoCycleFrom(topics[i].id)
          /\ Len(Meaningful(WalkFrom(topics[i].id).ancestors)) = 2
          /\ topics[i].subcategory # Empty
          /\ topics[i].category # topics[i].subcategory
          /\ topics[i].category # topics[i].label

----------------------------------------------------------------------------
(* C27 *)

\* Container j is the parent infer_hierarchy gave container i: i is a
\* subcategory, and its category is the text of j.
IsParentOf(j, i) ==
    /\ i # j
    /\ nodes_list[i].subcategory = nodes_list[i].text
    /\ nodes_list[i].category = nodes_list[j].text

\* The containers resolved as top-level categories.
ResolvedTopLevel ==
    {c \in ContainerIdx : /\ nodes_list[c].category = nodes_list[c].text
                          /\ nodes_list[c].subcategory = ""}

\* C27, as claimed: no two containers are each other's parent, and a list
\* with a container has a container resolved as a top-level category.
C27_ParentsAcyclic ==
    hpc = "inferred" =>
        /\ \A i \in ContainerIdx, j \in ContainerIdx :
               ~(IsParentOf(j, i) /\ IsParentOf(i, j))
        /\ ContainerIdx # {} => ResolvedTopLevel # {}

----------------------------------------------------------------------------
(* C28 *)

\* The containers that no other container contains.
TopLevel == {c \in ContainerIdx : EnclosingOf(c) = {}}

\* C28, as claimed: the category of every node is "Uncategorized" or the
\* text of a container that no other container contains.
C28_CategoryIsTopLevelText ==
    hpc = "inferred" =>
        \A i \in 1..Len(nodes_list) :
            \/ nodes_list[i].category = "Uncategorized"
            \/ \E c \in TopLevel : nodes_list[i].category = nodes_list[c].text

\* C28, amended: the category of every node is "Uncategorized" or the text
\* of a container that no other container contains or that is a smallest of
\* the containers that contain some other container.
C28_CategoryIsTopLevelOrParentText ==
    hpc = "inferred" =>
        \A i \in 1..Len(nodes_list) :
            \/ nodes_list[i].category = "Uncategorized"
            \/ \E c \in ContainerIdx :
                  /\ nodes_list[i].category = nodes_list[c].text
                  /\ \/ c \in TopLevel
                     \/ \E k \in ContainerIdx : c \in SmallestOf(EnclosingOf(k))

\* Three containers nested one in the other with a leaf in the innermost:
\* the innermost and the leaf have the text of the middle one as category.
C28_Witness ==
    /\ hpc = "inferred"
    /\ \E a \in ContainerIdx, b \in ContainerIdx, c \in ContainerIdx, l \in LeafIdx :
          /\ ContainsByMore(a, b) /\ ContainsByMore(b, c) /\ ContainsByMore(c, l)
          /\ b \notin TopLevel
          /\ nodes_list[c].category = nodes_list[b].text
          /\ nodes_list[l].category = nodes_list[b].text

----------------------------------------------------------------------------
(* C22 *)

\* The document of a topic is not available: its key is not in the map, or
\* the document is empty.
Unavailable(topic) ==
    \/ FilenameKey(topic) \notin DOMAIN content_cache
    \/ content_cache[FilenameKey(topic)] = <<>>

\* C22: every topic the loop has been through has its one row, in the order
\* of the topics, with the topic's label, category and subcategory; the row
\* of a topic without document has an empty description and no resources;
\* the list returned has a row for every topic.
C22_OneRowPerTopic ==
    /\ Len(data_rows) = topic_i
    /\ \A i \in 1..Len(data_rows) :
           /\ i <= Len(topics)
           /\ data_rows[i].Topic = topics[i].label
           /\ data_rows[i].Category = topics[i].category
           /\ data_rows[i].Subcategory = topics[i].subcategory
           /\ Unavailable(topics[i]) =>
                  data_rows[i].Description = <<>> /\ data_rows[i].Resources = <<>>
    /\ rpc = "returned" => Len(data_rows) = Len(topics)

\* Rows have been returned for a topic whose file was not fetched or was
\* empty and, after it, a topic whose file was fetched.
C22_Witness ==
    /\ rpc = "returned"
    /\ Len(data_rows) = 2
    /\ Unavailable(topics[1])
    /\ ~Unavailable(topics[2])
    /\ data_rows[1].Description = <<>>
    /\ data_rows[2].Description # <<>>


----------------------------------------------------------------------------
(* C23, C29: enrichment, its cache and the exported file *)

\* C23: when scrape runs with enrichment, every row of the exported CSV
\* carries the TLDR and the Challenge that enrichment gave the row.
C23_ExportCarriesEnrichment ==
    epc = "exported" =>
        \A i \in 1..Len(csv_rows) :
            /\ "TLDR" \in DOMAIN csv_rows[i]
            /\ "Challenge" \in DOMAIN csv_rows[i]
            /\ csv_rows[i].TLDR = data_rows[i].TLDR
            /\ csv_rows[i].Challenge = data_rows[i].Challenge

\* C29: the cache holds an entry only for a result the model returned, so a
\* row read from the cache in a later run never gets an empty TLDR: a row
\* without a result is asked for again.
C29_OnlyResultsCached ==
    /\ \A h \in DOMAIN cache : cache[h] = <<ModelResult.tldr, ModelResult.challenge>>
    /\ (runs > 1 /\ epc = "batch" /\ batch_num = 0) =>
           \A i \in 1..Len(data_rows) :
               "TLDR" \in DOMAIN data_rows[i] => data_rows[i].TLDR # <<>>


----------------------------------------------------------------------------
(* C24: the retry loop *)

\* C24: _generate_with_retry makes at most max_retries attempts; it returns
\* the result of the first attempt that succeeds; an error that is neither a
\* rate-limit nor a server error is raised again at the attempt where it
\* occurs, with no attempt after it; and when every attempt fails with an
\* error that is retried, it raises its failure after exactly max_retries
\* attempts.
C24_RetryLoop ==
    /\ Len(outcomes) <= max_retries
    /\ \A i \in 1..Len(outcomes) :
           \/ i = Len(outcomes)
           \/ (~outcomes[i].ok /\ (RateLimited(outcomes[i]) \/ ServerError(outcomes[i])))
    /\ \A i \in 1..Len(outcomes) :
           outcomes[i].ok =>
               /\ gpc = "returned"
               /\ retry_out = [kind |-> "result", result |-> outcomes[i].result]
    /\ \A i \in 1..Len(outcomes) :
           (~outcomes[i].ok /\ ~RateLimited(outcomes[i]) /\ ~ServerError(outcomes[i])) =>
               /\ gpc = "raised"
               /\ retry_out = [kind |-> "error", error |-> outcomes[i]]
    /\ gpc = "returned" => (outcomes # <<>> /\ outcomes[Len(outcomes)].ok)
    /\ (gpc = "raised" /\ retry_out.kind = "error") =>
           /\ outcomes # <<>> /\ outcomes[Len(outcomes)] = retry_out.error
           /\ ~RateLimited(retry_out.error) /\ ~ServerError(retry_out.error)
    /\ (gpc = "raised" /\ retry_out.kind = "failed") =>
           /\ Len(outcomes) = max_retries
           /\ \A i \in 1..Len(outcomes) : ~outcomes[i].ok
    /\ (Len(outcomes) = max_retries /\ gpc = "attempt") =>
           \A i \in 1..Len(outcomes) : ~outcomes[i].ok

\* With the default of 3: a failure after three retried errors, of which one
\* is a ClientError and one is not.
C24_Witness ==
    /\ max_retries = 3
    /\ gpc = "raised"
    /\ retry_out.kind = "failed"
    /\ Len(outcomes) = 3
    /\ \E i, j \in 1..3 : outcomes[i].client /\ ~outcomes[j].client


----------------------------------------------------------------------------
(* C30: the three bulk-fetch strategies *)

\* C30: on the same listing and the same outcome of every download the
\* thread-pool, the async and the sequential strategy return the same
\* mapping from file name without ".md" to content, whatever the order in
\* which the downloads of the thread pool complete.
C30_SameMapping ==
    fpc = "done" => (pool_cache = async_cache /\ async_cache = seq_cache)

====
